---- MODULE Spec2Model ----
(***************************************************************************)
(* Configuration resolution and merge engine of toolbelt                   *)
(* (toolbelt/config/loader.py, toolbelt/config/includes.py).               *)
(*                                                                         *)
(* Strings whose characters the code inspects (variable names, include     *)
(* references, paths) are sequences of one-character strings; a Path is    *)
(* held as its str() form.  All other strings are plain TLA+ strings.      *)
(***************************************************************************)
EXTENDS Integers, Sequences, FiniteSets, TLC

(***************************************************************************)
(* Bounds of the model.                                                    *)
(***************************************************************************)
\* total number of references in one run: top-level sources plus the
\* entries of all include lists of the files that are read
MaxRefs == 3

VARIABLES
    heap,      \* the Python objects a merge works on: address -> cell
    explicit_path, \* the config_path argument of find_config_sources (NoneV: not given)
    srcs,      \* config_paths: the files load_config is asked to load
    fs,        \* the files looked at so far: path -> File
    refs,      \* the references the include lists of this run are drawn from
    budget,    \* include entries that files not yet looked at may still hold
    home,      \* os.environ['HOME'], which expanduser reads
    environ,   \* the rest of os.environ, once load_config has read it
    pc,        \* where load_config is
    cur,       \* 1-based index in srcs of the file being loaded
    stack,     \* the active calls of process_includes, outermost first
    config,    \* load_config's config
    loaded,    \* what load_config_from_file returned last
    loads,     \* history: what each load_config_from_file call returned
    result,    \* what load_config returns
    event,     \* history: what the last step did
    run,       \* 1 for a call of load_config, 2 for a second call on the same files
    first      \* history: the outcome and environment of the first call

vars == <<heap, explicit_path, srcs, fs, refs, budget, home, environ, pc, cur, stack, config, loaded,
          loads, result, event, run, first>>

(***************************************************************************)
(* str helpers                                                             *)
(***************************************************************************)
\* str.startswith
StartsWith(s, p) == Len(s) >= Len(p) /\ SubSeq(s, 1, Len(p)) = p

\* the element of a one-element set. In The({e(x) : x \in {v}}) the value v
\* is computed once, however often e uses it: a local variable of the code
The(S) == CHOOSE x \in S : TRUE

\* the positions of character c in s
Positions(s, c) == The({{k \in 1..Len(str) : str[k] = c} : str \in {s}})

MaxOf(S) == The({(CHOOSE m \in T : \A k \in T : k <= m) : T \in {S}})
MinOf(S) == The({(CHOOSE m \in T : \A k \in T : m <= k) : T \in {S}})

\* s.split('/'): the components between slashes, empty ones included; the
\* j-th component lies between the (j-1)-th and the j-th slash
SplitSlash(s) ==
    LET Cut(cuts, j) ==
            IF j = 0 THEN 0
            ELSE IF j = Cardinality(cuts) + 1 THEN Len(s) + 1
            ELSE CHOOSE k \in cuts : Cardinality({c \in cuts : c <= k}) = j
    IN  The({[j \in 1..(Cardinality(cuts) + 1) |->
                  SubSeq(s, Cut(cuts, j - 1) + 1, Cut(cuts, j) - 1)]
             : cuts \in {Positions(s, "/")}})

\* '/'.join(parts)
JoinSlash(parts) ==
    LET Joined(seq) ==
            LET joined[i \in 0..Len(seq)] ==
                    IF i = 0 THEN <<>>
                    ELSE IF i = 1 THEN seq[1]
                    ELSE joined[i - 1] \o <<"/">> \o seq[i]
            IN  joined[Len(seq)]
    IN  The({Joined(seq) : seq \in {parts}})

\* the components that pathlib keeps: empty and '.' components are dropped
KeptParts(seq) == SelectSeq(seq, LAMBDA part : part # <<>> /\ part # <<".">>)

(***************************************************************************)
(* pathlib.PurePosixPath, held as str(path)                                *)
(***************************************************************************)
IsAbsolute(s) == StartsWith(s, <<"/">>)

\* the root of a path string: '/', or '//' when it starts with exactly two
\* slashes (POSIX keeps that case apart), or nothing for a relative path
Anchor(s) ==
    IF StartsWith(s, <<"/", "/">>) /\ ~StartsWith(s, <<"/", "/", "/">>) THEN <<"/", "/">>
    ELSE IF IsAbsolute(s) THEN <<"/">>
    ELSE <<>>

\* the parts of a path string after the anchor: empty and '.' components are
\* dropped, '..' components are kept
PathParts(s) == KeptParts(SplitSlash(s))

\* str of the path with this root and these parts
FromParts(anchor, parts) ==
    IF anchor # <<>> THEN anchor \o JoinSlash(parts)
    ELSE IF parts = <<>> THEN <<".">>
    ELSE JoinSlash(parts)

\* str(Path(s))
PathStr(s) == FromParts(Anchor(s), PathParts(s))

\* str(base / ref)
PathJoin(base, ref) ==
    IF IsAbsolute(ref) THEN PathStr(ref)
    ELSE FromParts(Anchor(base), PathParts(base) \o PathParts(ref))

\* str(Path(p).parent)
PathParent(p) ==
    The({IF parts = <<>> THEN PathStr(p)
         ELSE FromParts(Anchor(p), SubSeq(parts, 1, Len(parts) - 1))
         : parts \in {PathParts(p)}})

\* the path string the operating system follows to the file: each 'x/..'
\* pair is dropped, x being a directory (no symbolic links)
RealPath(p) ==
    LET Followed(parts) ==
            LET upto[i \in 0..Len(parts)] ==
                    IF i = 0 THEN <<>>
                    ELSE The({IF parts[i] = <<".", ".">> /\ seen # <<>>
                              THEN SubSeq(seen, 1, Len(seen) - 1)
                              ELSE Append(seen, parts[i]) : seen \in {upto[i - 1]}})
            IN  upto[Len(parts)]
    IN  The({FromParts(Anchor(p), Followed(parts)) : parts \in {PathParts(p)}})

\* Path(p).name
PathName(p) ==
    The({IF parts = <<>> THEN <<>> ELSE parts[Len(parts)] : parts \in {PathParts(p)}})

\* Path(p).suffix: from the last dot of the name, unless that dot is the
\* first or the last character of the name
PathSuffix(p) ==
    LET Suffix(name, dots) ==
            IF dots = {} THEN <<>>
            ELSE The({IF 1 < k /\ k < Len(name) THEN SubSeq(name, k, Len(name))
                      ELSE <<>> : k \in {MaxOf(dots)}})
    IN  The({The({Suffix(name, dots) : dots \in {Positions(name, ".")}})
             : name \in {PathName(p)}})

(***************************************************************************)
(* Values of a parsed document (what yaml.safe_load or a module's config   *)
(* attribute yields), tagged with their Python type.                       *)
(***************************************************************************)
NoneV == [t |-> "none"]
StrV(x) == [t |-> "str", v |-> x]
ListV(x) == [t |-> "list", v |-> x]
DictV(x) == [t |-> "dict", v |-> x]

IsDict(x) == x.t = "dict"
IsList(x) == x.t = "list"
IsStr(x) == x.t = "str"

\* the outcome of a call: a returned value, or an exception
Ok(x) == [ok |-> TRUE, val |-> x]
Raise(e) == [ok |-> FALSE, exc |-> e]

\* dict d with key k set to value x
DictSet(d, k, x) == [j \in DOMAIN d \cup {k} |-> IF j = k THEN x ELSE d[j]]

\* dict.update: {**d, **u}
DictUpdate(d, u) ==
    [j \in DOMAIN d \cup DOMAIN u |-> IF j \in DOMAIN u THEN u[j] ELSE d[j]]

\* {k: v for k, v in d.items() if k != key}
DictWithout(d, key) == [j \in DOMAIN d \ {key} |-> d[j]]

EmptyDict == [j \in {} |-> NoneV]

(***************************************************************************)
(* The files, references and names the model draws from.                   *)
(***************************************************************************)
ProjectDir == <<"/", "p">>
PackageDir == <<"/", "k">>
HomeDir == <<"/", "h">>

\* the values HOME may have: a directory of its own, or the project directory
Homes == {HomeDir, ProjectDir}

RefA == <<"a", ".", "y", "a", "m", "l">>
RefB == <<"b", ".", "y", "a", "m", "l">>
RefC == <<"c", ".", "y", "m", "l">>
RefJson == <<"d", ".", "j", "s", "o", "n">>
RefPy == <<"e", ".", "p", "y">>
RefPkg == <<"@", "k", ":", "r", ".", "y", "a", "m", "l">>
RefUnknownPkg == <<"@", "x", ":", "r", ".", "y", "a", "m", "l">>
RefMissingRes == <<"@", "k", ":", "m", ".", "y", "a", "m", "l">>
RefDotDot == <<"s", "/", ".", ".", "/", "a", ".", "y", "a", "m", "l">>
RefHomeA == <<"~", "/", "a", ".", "y", "a", "m", "l">>

\* the references an include list is drawn from
IncludeRefs == {RefA, RefB, RefC, RefJson, RefPy, RefPkg, RefUnknownPkg}

\* the references of the runs that compare two environments
HomeRefs == {RefA, RefHomeA}

PathA == PathJoin(ProjectDir, RefA)
PathB == PathJoin(ProjectDir, RefB)
PathC == PathJoin(ProjectDir, RefC)
PathJson == PathJoin(ProjectDir, RefJson)
PathPy == PathJoin(ProjectDir, RefPy)
PathPkg == PathJoin(PackageDir, <<"r", ".", "y", "a", "m", "l">>)

\* the packages that are installed, and the resources they hold
Packages == {<<"k">>}
PackageResources == {<<"r", ".", "y", "a", "m", "l">>}

\* variable names: one under an allowed prefix, one that misses the prefix
\* by its underscore, one plain, one more allowed one
NameTB == <<"T", "B", "_", "V">>
NameTBV == <<"T", "B", "V">>
NameX == <<"x">>
NameCI == <<"C", "I", "_", "V">>

VarNames == {NameTB, NameTBV, NameX, NameCI}

(***************************************************************************)
(* Reference resolution                                                    *)
(***************************************************************************)
\* what resolve_config_reference returns for a reference it cannot resolve
NoPath == [ok |-> FALSE, exc |-> "None"]

\* package_resources.resolve_package_resource: '@package:path' with exactly one
\* ':' and both sides non-empty, resolved inside an installed package
ResolvePackageResource(ref) ==
    LET body == SubSeq(ref, 2, Len(ref))
        colons == Positions(body, ":")
    IN  IF ~StartsWith(ref, <<"@">>) \/ Cardinality(colons) # 1
        THEN Raise("ValueError")
        ELSE LET k == MinOf(colons)
                 package == SubSeq(body, 1, k - 1)
                 resource == SubSeq(body, k + 1, Len(body))
             IN  IF package = <<>> \/ resource = <<>> THEN Raise("ValueError")
                 ELSE IF package \notin Packages THEN Raise("ValueError")
                 ELSE IF resource \notin PackageResources
                      THEN Raise("FileNotFoundError")
                 ELSE Ok(PathJoin(PackageDir, resource))

\* Path(ref).expanduser() for a reference that starts with '~/': the first
\* part, '~', gives way to the home directory
ExpandUser(ref) ==
    FromParts(Anchor(home), PathParts(home) \o Tail(PathParts(ref)))

\* resolve_config_reference as it would be without its except clause: the
\* resolver's exception reaches the caller
ResolveConfigReferenceUncaught(config_ref, base_path) ==
    IF StartsWith(config_ref, <<"@">>) THEN ResolvePackageResource(config_ref)
    ELSE IF StartsWith(config_ref, <<"~", "/">>) THEN Ok(ExpandUser(config_ref))
    ELSE IF StartsWith(config_ref, <<"/">>) THEN Ok(PathStr(config_ref))
    ELSE Ok(PathJoin(base_path, config_ref))

\* resolve_config_reference as it would be if it rejected the empty reference
ResolveConfigReferenceEmptyFails(config_ref, base_path) ==
    IF config_ref = <<>> THEN NoPath
    ELSE ResolveConfigReferenceUncaught(config_ref, base_path)

\* resolve_config_reference(config_ref, base_path): Ok(path) or NoPath
ResolveConfigReference(config_ref, base_path) ==
    IF StartsWith(config_ref, <<"@">>)
    THEN LET r == ResolvePackageResource(config_ref)
         IN  IF r.ok THEN r ELSE NoPath
    ELSE IF StartsWith(config_ref, <<"~", "/">>) THEN Ok(ExpandUser(config_ref))
    ELSE IF StartsWith(config_ref, <<"/">>) THEN Ok(PathStr(config_ref))
    ELSE Ok(PathJoin(base_path, config_ref))

(***************************************************************************)
(* Raw-data merge                                                          *)
(***************************************************************************)
\* the profiles / variables branch as it would be if the mapping were replaced
\* rather than updated
MergedReplaceMapping(old, value) == Ok(value)

\* merged[key] after the loop body of _merge_config_data has run for one
\* (key, value) of override_data; merged is a plain mapping key -> value
MergedUpdateMapping(old, value) ==
    \* old.copy() then .update(value)
    IF ~(IsDict(old) \/ IsList(old)) THEN Raise("AttributeError")
    ELSE IF IsList(old) THEN Raise("AttributeError")
    ELSE IF IsDict(value) THEN Ok(DictV(DictUpdate(old.v, value.v)))
    ELSE IF IsList(value)
         THEN (IF value.v = <<>> THEN Ok(old) ELSE Raise("ValueError"))
    ELSE IF IsStr(value) THEN Raise("ValueError")
    ELSE Raise("TypeError")

\* the global_exclude_patterns branch as it would be if override's list came
\* first
MergedConcatOverrideFirst(old, value) ==
    IF IsList(old) /\ IsList(value) THEN Ok(ListV(value.v \o old.v))
    ELSE IF IsStr(old) /\ IsStr(value) THEN Ok(StrV(value.v \o old.v))
    ELSE Raise("TypeError")

MergedConcat(old, value) ==
    \* old + value
    IF IsList(old) /\ IsList(value) THEN Ok(ListV(old.v \o value.v))
    ELSE IF IsStr(old) /\ IsStr(value) THEN Ok(StrV(old.v \o value.v))
    ELSE Raise("TypeError")

MergedKey(merged, key, value) ==
    IF key = "profiles" /\ key \in DOMAIN merged
    THEN MergedUpdateMapping(merged[key], value)
    ELSE IF key = "global_exclude_patterns" /\ key \in DOMAIN merged
    THEN MergedConcat(merged[key], value)
    ELSE IF key = "variables" /\ key \in DOMAIN merged
    THEN MergedUpdateMapping(merged[key], value)
    ELSE Ok(value)

\* _merge_config_data(base_data, override_data): both are document values;
\* Ok(merged document) or the exception the loop raises
MergeConfigData(base_data, override_data) ==
    IF ~(IsDict(base_data) \/ IsList(base_data)) THEN Raise("AttributeError")
    ELSE IF ~IsDict(override_data) THEN Raise("AttributeError")
    ELSE IF IsList(base_data)
         THEN (IF DOMAIN override_data.v = {} THEN Ok(base_data)
               ELSE Raise("TypeError"))
    ELSE LET merged == base_data.v
             over == override_data.v
             failed == {k \in DOMAIN over : ~MergedKey(merged, k, over[k]).ok}
         IN  IF failed # {}
             THEN Raise(MergedKey(merged, CHOOSE k \in failed : TRUE,
                                  over[CHOOSE k \in failed : TRUE]).exc)
             ELSE Ok(DictV([k \in DOMAIN merged \cup DOMAIN over |->
                              IF k \in DOMAIN over
                              THEN MergedKey(merged, k, over[k]).val
                              ELSE merged[k]]))

(***************************************************************************)
(* Typed configuration: ToolConfig, ProfileConfig, ToolbeltConfig          *)
(***************************************************************************)
GitIgnore == <<".", "g", "i", "t", "i", "g", "n", "o", "r", "e">>

\* the value of an optional field of a raw mapping, or its default
FieldOr(r, f, default) == IF f \in DOMAIN r THEN r[f] ELSE default

\* ToolConfig(**raw): name and command are required non-empty strings
ToolIsValid(raw) ==
    /\ "name" \in DOMAIN raw /\ raw.name # <<>>
    /\ "command" \in DOMAIN raw /\ raw.command # <<>>

ParseTool(raw) ==
    [name |-> raw.name,
     command |-> raw.command,
     args |-> FieldOr(raw, "args", <<>>),
     file_handling_mode |-> FieldOr(raw, "file_handling_mode", "per_file"),
     output_to_file |-> FieldOr(raw, "output_to_file", FALSE),
     ignore_files |-> FieldOr(raw, "ignore_files", <<GitIgnore>>)]

\* an extension with its leading dot
NormalizeExtension(ext) ==
    IF StartsWith(ext, <<".">>) THEN ext ELSE <<".">> \o ext

ProfileIsValid(raw) ==
    /\ \A k \in DOMAIN FieldOr(raw, "check_tools", <<>>) :
           ToolIsValid(raw.check_tools[k])
    /\ \A k \in DOMAIN FieldOr(raw, "format_tools", <<>>) :
           ToolIsValid(raw.format_tools[k])
    /\ \A k \in DOMAIN FieldOr(raw, "extensions", <<>>) :
           raw.extensions[k] # <<>>

ParseProfile(key, raw) ==
    [name |-> FieldOr(raw, "name", key),
     extensions |-> [k \in DOMAIN FieldOr(raw, "extensions", <<>>) |->
                        NormalizeExtension(raw.extensions[k])],
     check_tools |-> [k \in DOMAIN FieldOr(raw, "check_tools", <<>>) |->
                         ParseTool(raw.check_tools[k])],
     format_tools |-> [k \in DOMAIN FieldOr(raw, "format_tools", <<>>) |->
                          ParseTool(raw.format_tools[k])],
     exclude_patterns |-> FieldOr(raw, "exclude_patterns", <<>>),
     ignore_files |-> FieldOr(raw, "ignore_files", <<GitIgnore>>)]

\* parse_toolbelt_config(raw_data): Ok(ToolbeltConfig with no sources) or a
\* validation error
ParseToolbeltConfig(raw_data) ==
    IF ~IsDict(raw_data) THEN Raise("ValidationError")
    ELSE LET d == raw_data.v
             profiles == FieldOr(d, "profiles", DictV(EmptyDict))
             variables == FieldOr(d, "variables", DictV(EmptyDict))
             excludes == FieldOr(d, "global_exclude_patterns", ListV(<<>>))
         IN  IF \/ ~IsDict(profiles) \/ ~IsDict(variables) \/ ~IsList(excludes)
                \/ \E n \in DOMAIN profiles.v : ~ProfileIsValid(profiles.v[n])
             THEN Raise("ValidationError")
             ELSE Ok([sources |-> <<>>,
                      profiles |-> [n \in DOMAIN profiles.v |->
                                       ParseProfile(n, profiles.v[n])],
                      global_exclude_patterns |-> excludes.v,
                      variables |-> variables.v])

\* `a or b` as it would be if merge_configs concatenated base's list and
\* override's list
ListConcat(a, b) == b \o a

\* Python's `a or b` on two lists
ListOr(a, b) == IF a # <<>> THEN a ELSE b

\* the stored profile as it would be if a base profile without check tools
\* counted as absent
MergedProfileIfBaseHasTools(base_profile, override_profile) ==
    IF base_profile.check_tools = <<>> THEN override_profile
    ELSE [base_profile EXCEPT
            !.exclude_patterns = ListOr(override_profile.exclude_patterns,
                                        base_profile.exclude_patterns),
            !.ignore_files = ListOr(override_profile.ignore_files,
                                    base_profile.ignore_files),
            !.check_tools = ListOr(override_profile.check_tools,
                                   base_profile.check_tools),
            !.format_tools = ListOr(override_profile.format_tools,
                                    base_profile.format_tools),
            !.extensions = ListOr(override_profile.extensions,
                                  base_profile.extensions)]

\* the profile merge_configs stores for a name both configurations hold:
\* base_profile.model_copy(update={...})
MergedProfile(base_profile, override_profile) ==
    [base_profile EXCEPT
        !.exclude_patterns = ListOr(override_profile.exclude_patterns,
                                    base_profile.exclude_patterns),
        !.ignore_files = ListOr(override_profile.ignore_files,
                                base_profile.ignore_files),
        !.check_tools = ListOr(override_profile.check_tools,
                               base_profile.check_tools),
        !.format_tools = ListOr(override_profile.format_tools,
                                base_profile.format_tools),
        !.extensions = ListOr(override_profile.extensions,
                              base_profile.extensions)]

\* merged_languages after the loop of merge_configs
MergedProfiles(base, override) ==
    [n \in DOMAIN base.profiles \cup DOMAIN override.profiles |->
        IF n \in DOMAIN override.profiles
        THEN IF n \in DOMAIN base.profiles
             THEN MergedProfile(base.profiles[n], override.profiles[n])
             ELSE override.profiles[n]
        ELSE base.profiles[n]]

\* merge_configs as it would be if the earlier configuration kept its variables
MergeConfigsEarlierWins(base, override) ==
    [sources |-> base.sources \o override.sources,
     profiles |-> MergedProfiles(base, override),
     global_exclude_patterns |->
         base.global_exclude_patterns \o override.global_exclude_patterns,
     variables |-> DictUpdate(override.variables, base.variables)]

\* merge_configs as it would be if override's patterns came first
MergeConfigsPatternsReversed(base, override) ==
    [sources |-> base.sources \o override.sources,
     profiles |-> MergedProfiles(base, override),
     global_exclude_patterns |->
         override.global_exclude_patterns \o base.global_exclude_patterns,
     variables |-> DictUpdate(base.variables, override.variables)]

\* merge_configs as it would be if override's sources came first
MergeConfigsSourcesReversed(base, override) ==
    [sources |-> override.sources \o base.sources,
     profiles |-> MergedProfiles(base, override),
     global_exclude_patterns |->
         base.global_exclude_patterns \o override.global_exclude_patterns,
     variables |-> DictUpdate(base.variables, override.variables)]

\* merge_configs(base, override)
MergeConfigs(base, override) ==
    [sources |-> base.sources \o override.sources,
     profiles |-> MergedProfiles(base, override),
     global_exclude_patterns |->
         base.global_exclude_patterns \o override.global_exclude_patterns,
     variables |-> DictUpdate(base.variables, override.variables)]

(***************************************************************************)
(* Environment overlay                                                     *)
(***************************************************************************)
AllowedPrefixes ==
    { <<"T", "O", "O", "L", "B", "E", "L", "T", "_">>,
      <<"T", "B", "_">>,
      <<"T", "B", "E", "L", "T", "_">>,
      <<"C", "I", "_">>,
      <<"B", "U", "I", "L", "D", "_">> }

HasAllowedPrefix(k) == \E prefix \in AllowedPrefixes : StartsWith(k, prefix)

\* get_env_variables_context as it would be without its prefix filter
GetEnvVariablesContextUnfiltered(env) == env

\* get_env_variables_context() when os.environ is env
GetEnvVariablesContext(env) ==
    [k \in {n \in DOMAIN env : HasAllowedPrefix(n)} |-> env[k]]

\* ApplyEnvironment as it would be if it built a new configuration from the
\* variables instead of copying cfg
ApplyEnvironmentFresh(cfg, env) ==
    [sources |-> <<>>, profiles |-> EmptyDict, global_exclude_patterns |-> <<>>,
     variables |-> DictUpdate(cfg.variables, GetEnvVariablesContext(env))]

\* the last step of load_config: configuration cfg with the environment's
\* variables merged over its own
ApplyEnvironment(cfg, env) ==
    LET env_variables == GetEnvVariablesContext(env)
    IN  IF DOMAIN env_variables # {}
        THEN [cfg EXCEPT !.variables = DictUpdate(cfg.variables, env_variables)]
        ELSE cfg

(***************************************************************************)
(* Files.  A file is [kind, include]: what is on disk at a path.           *)
(*   missing     nothing is there                                          *)
(*   unparsable  text that yaml.safe_load rejects (.py: the import raises) *)
(*   null        an empty document (safe_load returns None)                *)
(*   scalar      a document that is one string                             *)
(*   noconfig    a module that defines no config attribute                 *)
(*   wrongtype   a module whose config is no dict and no ToolbeltConfig    *)
(*   invalid     a mapping whose profile holds a tool without a command    *)
(*   map         a well-formed mapping with the include list `include`     *)
(*   other       a file that is no configuration (d.json)                  *)
(***************************************************************************)
File(kind, include) == [kind |-> kind, include |-> include]

DupPattern == <<"d", "u", "p">>
ExtPy == <<"p", "y">>
ExtJs == <<".", "j", "s">>

\* a tool declared by the file at path p
RawTool(p) == [name |-> p, command |-> p]

\* what the file at path p declares besides its includes, by its name:
\*   a.yaml  variables TB_V, CI_V, x; profile py (all fields set); two patterns
\*   b.yaml  variables TB_V, CI_V, TBV; profile py with empty check_tools and its
\*           own ignore_files, profile js; one pattern
\*   c.yml   profile js only: no variables and no patterns key
\*   e.py    variable x; one pattern; no profiles key
\*   r.yaml  (packaged) variable TBV; profile py; one pattern
OwnData(p) ==
    LET name == PathName(p)
    IN  IF name = RefA THEN
            [variables |-> DictV([n \in {NameTB, NameCI, NameX} |-> p]),
             profiles |-> DictV([n \in {"py"} |->
                 [extensions |-> <<ExtPy>>,
                  check_tools |-> <<RawTool(p)>>,
                  format_tools |-> <<RawTool(p)>>,
                  exclude_patterns |-> <<p>>,
                  ignore_files |-> <<p>>]]),
             global_exclude_patterns |-> ListV(<<p, DupPattern>>)]
        ELSE IF name = RefB THEN
            [variables |-> DictV([n \in {NameTB, NameCI, NameTBV} |-> p]),
             profiles |-> DictV([n \in {"py", "js"} |->
                 IF n = "py"
                 THEN [extensions |-> <<ExtPy>>,
                       check_tools |-> <<>>,
                       format_tools |-> <<RawTool(p)>>,
                       ignore_files |-> <<p>>]
                 ELSE [extensions |-> <<ExtJs>>,
                       check_tools |-> <<RawTool(p)>>]]),
             global_exclude_patterns |-> ListV(<<DupPattern>>)]
        ELSE IF name = RefC THEN
            [profiles |-> DictV([n \in {"js"} |->
                 [name |-> "javascript",
                  extensions |-> <<>>,
                  check_tools |-> <<RawTool(p)>>,
                  exclude_patterns |-> <<p>>]])]
        ELSE IF name = RefPy THEN
            [variables |-> DictV([n \in {NameX} |-> p]),
             global_exclude_patterns |-> ListV(<<p>>)]
        ELSE
            [variables |-> DictV([n \in {NameTBV} |-> p]),
             profiles |-> DictV([n \in {"py"} |->
                 [extensions |-> <<ExtPy>>,
                  check_tools |-> <<RawTool(p)>>]]),
             global_exclude_patterns |-> ListV(<<p>>)]

\* the value of the include key: b.yaml writes a single include as a bare
\* string, every other file writes a list
IncludeValue(p, include) ==
    IF PathName(p) = RefB /\ Len(include) = 1 THEN StrV(include[1])
    ELSE ListV(include)

\* the document that reading file f at path p yields (for a .py file: the
\* value of its config attribute); called for the kinds that yield one
Document(p, f) ==
    IF f.kind = "null" THEN NoneV
    ELSE IF f.kind = "scalar" THEN StrV(<<"s">>)
    ELSE IF f.kind = "invalid"
         THEN DictV([profiles |-> DictV([n \in {"bad"} |->
                        [check_tools |-> <<[name |-> p]>>]])])
    ELSE IF f.include = <<>> THEN DictV(OwnData(p))
    ELSE DictV(DictSet(OwnData(p), "include", IncludeValue(p, f.include)))

\* sequences over S of length at most n
SeqsUpTo(S, n) == UNION {[1..k -> S] : k \in 0..n}

\* what may be on disk at path p when it is first looked at, with at most
\* n include entries
FileChoices(p, n) ==
    IF p = PathPkg THEN {File("map", <<>>)}
    ELSE IF PathSuffix(p) \in {<<".", "y", "a", "m", "l">>, <<".", "y", "m", "l">>}
    THEN {File(k, <<>>) : k \in {"missing", "unparsable", "null", "scalar", "invalid"}}
         \cup {File("map", inc) : inc \in SeqsUpTo(refs, n)}
    ELSE IF PathSuffix(p) = <<".", "p", "y">>
    THEN {File(k, <<>>) : k \in {"missing", "noconfig", "wrongtype"}}
         \cup {File("map", inc) : inc \in SeqsUpTo(refs, n)}
    ELSE {File("other", <<>>)}

\* the paths load_config is called with
TopPaths == {PathA, PathB, PathC, PathPy, PathJson}

\* the lists load_config is called with: at most n distinct paths
SourceLists(n) ==
    {s \in SeqsUpTo(TopPaths, n) : \A j, k \in DOMAIN s : s[j] = s[k] => j = k}

\* os.environ: every environment over these names
EnvNames == {NameTB, NameTBV, NameCI}
EnvValue == <<"e", "n", "v">>
Environments == UNION {[names -> {EnvValue}] : names \in SUBSET EnvNames}

\* get_default_config(): the packaged default preset, loaded
DefaultConfig ==
    LET c == ParseToolbeltConfig(DictV(OwnData(PathPkg))).val
    IN  [c EXCEPT !.sources = <<PathPkg>>]

NoConfig == [sources |-> <<>>, profiles |-> EmptyDict,
             global_exclude_patterns |-> <<>>, variables |-> EmptyDict]

NoEvent == [kind |-> "none"]

YamlSuffixes == {<<".", "y", "a", "m", "l">>, <<".", "y", "m", "l">>}
PySuffix == <<".", "p", "y">>

\* the state of a call process_includes(data, base_path, processed_sources)
\* of the file at `path`, as it reaches its loop: a document that is None
\* raises on the `'include' not in data` test, a document without an include
\* key is returned as it is
NewFrame(path, data, base_path, processed_sources) ==
    LET has == IsDict(data) /\ "include" \in DOMAIN data.v
        includes == IF ~has THEN <<>>
                    ELSE IF IsList(data.v.include) THEN data.v.include.v
                    ELSE <<data.v.include.v>>
    IN  [path |-> path,
         base_path |-> base_path,
         includes |-> includes,
         idx |-> 1,
         merged_data |-> IF has THEN DictV(DictWithout(data.v, "include")) ELSE data,
         sources |-> <<>>,
         processed_sources |-> processed_sources,
         started_with |-> processed_sources,
         open_files |-> {},
         status |-> IF data = NoneV THEN "raise" ELSE "loop"]

Top == stack[Len(stack)]

\* the call on top of the stack has raised or has finished its loop
Finished(f) == f.status = "raise" \/ f.idx > Len(f.includes)

\* the stack with its top frame replaced
WithTop(f) == [stack EXCEPT ![Len(stack)] = f]

\* what is at path p: the file already looked at, or any file the budget allows
FilesAt(p) ==
    IF RealPath(p) \in DOMAIN fs THEN {fs[RealPath(p)]} ELSE FileChoices(p, budget)

\* fs and budget once file f has been seen at path p
Look(p, f) ==
    /\ fs' = DictSet(fs, RealPath(p), f)
    /\ budget' = IF RealPath(p) \in DOMAIN fs THEN budget ELSE budget - Len(f.include)

\* reading the file raises: yaml.safe_load on unparsable text, or a module
\* that cannot be imported or has no config attribute
ReadRaises(f) == f.kind \in {"missing", "unparsable", "noconfig", "wrongtype"}

\* the exception that reading file f raises
ReadError(f) ==
    IF f.kind = "missing" THEN "FileNotFoundError"
    ELSE IF f.kind = "unparsable" THEN "YAMLError"
    ELSE "ValueError"

\* the exception a loader would let through if it re-raised the cause as it is
LoaderErrorUnwrapped(config_path, e) ==
    [type |-> e, message |-> <<<<e>>>>, cause |-> "None"]

\* the except clause of load_yaml_config / load_python_config: a ValueError
\* whose message (the sequence of its pieces) holds the path and the text of
\* the cause e, raised from e
LoaderError(config_path, e) ==
    [type |-> "ValueError",
     message |-> IF PathSuffix(config_path) \in YamlSuffixes
                 THEN <<<<"Error loading YAML config file ">>, config_path, <<"; ">>, <<e>>>>
                 ELSE <<<<"Error loading Python config file ">>, config_path, <<": ">>, <<e>>>>,
     cause |-> e]

\* the ValueError of load_config_from_file: its message holds the suffix
UnsupportedError(config_path) ==
    [type |-> "ValueError",
     message |-> <<<<"Unsupported configuration file type: ">>, PathSuffix(config_path)>>,
     cause |-> "None"]

\* FileOps as it would be if the file were left open
FileOpsKeptOpen(path, f) == <<[op |-> "open", path |-> path], [op |-> "read", path |-> path]>>

\* what reading the file at path does with it: `with path.open('r') as f:
\* yaml.safe_load(f)` opens, reads and closes, also when safe_load raises;
\* opening a file that is not there raises and leaves nothing open
FileOps(path, f) ==
    IF f.kind = "missing" THEN <<>>
    ELSE <<[op |-> "open", path |-> path], [op |-> "read", path |-> path],
           [op |-> "close", path |-> path]>>

\* the files that the operations ops leave open
StillOpen(ops) ==
    {ops[i].path : i \in {j \in DOMAIN ops :
        /\ ops[j].op = "open"
        /\ \A k \in DOMAIN ops : k > j => ~(ops[k].op = "close" /\ ops[k].path = ops[j].path)}}

NoFirst == [run |-> 0]

Init ==
    /\ srcs \in SourceLists(MaxRefs)
    /\ explicit_path = NoneV
    /\ heap = EmptyDict
    /\ fs = EmptyDict
    /\ refs = IncludeRefs
    /\ budget = MaxRefs - Len(srcs)
    /\ home = HomeDir
    /\ run = 1
    /\ first = NoFirst
    /\ environ = EmptyDict
    /\ pc = "file"
    /\ cur = 1
    /\ stack = <<>>
    /\ config = NoConfig
    /\ loaded = NoConfig
    /\ loads = <<>>
    /\ result = NoConfig
    /\ event = NoEvent

\* load_config with no sources: the default configuration
LoadDefault ==
    /\ pc = "file" /\ srcs = <<>>
    /\ config' = DefaultConfig
    /\ loads' = <<DefaultConfig>>
    /\ pc' = "overlay"
    /\ event' = [kind |-> "default"]
    /\ UNCHANGED <<heap, explicit_path, srcs, fs, refs, budget, home, run, first, environ, cur, stack, loaded, result>>

\* load_config_from_file -> load_yaml_config / load_python_config, up to the
\* call of _process_includes
LoadFile ==
    /\ pc = "file" /\ cur <= Len(srcs)
    /\ LET config_path == srcs[cur]
       IN  /\ PathSuffix(config_path) \in YamlSuffixes \cup {PySuffix}
           /\ \E f \in FilesAt(config_path) :
                 /\ Look(config_path, f)
                 /\ IF ReadRaises(f)
                    THEN /\ pc' = "error"
                         /\ stack' = <<>>
                         /\ event' = [kind |-> "load_failed", path |-> config_path,
                                       error |-> LoaderError(config_path, ReadError(f)),
                                       io |-> FileOps(config_path, f)]
                    ELSE /\ pc' = "includes"
                         /\ stack' = <<[NewFrame(config_path, Document(config_path, f),
                                                 PathParent(config_path), {})
                                           EXCEPT !.open_files =
                                               StillOpen(FileOps(config_path, f))]>>
                         /\ event' = [kind |-> "read", path |-> config_path,
                                       io |-> FileOps(config_path, f)]
    /\ UNCHANGED <<heap, explicit_path, srcs, refs, home, run, first, environ, cur, config, loaded, loads, result>>

\* load_config_from_file on a suffix it does not support
LoadUnsupported ==
    /\ pc = "file" /\ cur <= Len(srcs)
    /\ PathSuffix(srcs[cur]) \notin YamlSuffixes \cup {PySuffix}
    /\ pc' = "error"
    /\ event' = [kind |-> "load_failed", path |-> srcs[cur],
                  error |-> UnsupportedError(srcs[cur])]
    /\ UNCHANGED <<heap, explicit_path, srcs, fs, refs, budget, home, run, first, environ, cur, stack, config, loaded, loads, result>>

\* Skipped as it would be if a skipped entry ended the loop
SkippedEndsLoop(f) == [f EXCEPT !.idx = Len(f.includes) + 1]

\* the top frame after an entry was skipped: nothing but the loop index moves
Skipped(f) == [f EXCEPT !.idx = f.idx + 1]

\* the circular-dependency test as it would be if it never matched
NeverCircular(resolved_path_str, processed_sources) == FALSE

\* the circular-dependency test of process_includes
IsCircular(resolved_path_str, processed_sources) ==
    resolved_path_str \in processed_sources

\* the depth at which the model stops following includes; the loads of the
\* model stay below it (C19)
MaxDepth == MaxRefs + 2

\* one iteration of the loop of process_includes, up to the recursive call
ProcessEntry ==
    /\ pc = "includes" /\ ~Finished(Top)
    /\ Len(stack) < MaxDepth
    /\ \E f \in {Top} : \E include_ref \in {f.includes[f.idx]} :
       \E resolved \in {ResolveConfigReference(include_ref, f.base_path)} :
           IF ~resolved.ok /\ resolved # NoPath
           THEN /\ stack' = WithTop([f EXCEPT !.status = "raise"])
                /\ event' = [kind |-> "raised", ref |-> include_ref]
                /\ UNCHANGED <<fs, budget>>
           ELSE IF ~resolved.ok
           THEN /\ stack' = WithTop(Skipped(f))
                /\ event' = [kind |-> "skip", reason |-> "unresolved", ref |-> include_ref]
                /\ UNCHANGED <<fs, budget>>
           ELSE IF IsCircular(resolved.val, f.processed_sources)
           THEN /\ stack' = WithTop(Skipped(f))
                /\ event' = [kind |-> "skip", reason |-> "circular", ref |-> include_ref]
                /\ UNCHANGED <<fs, budget>>
           ELSE \E file \in FilesAt(resolved.val) :
                /\ Look(resolved.val, file)
                /\ IF ~StartsWith(include_ref, <<"@">>) /\ file.kind = "missing"
                   THEN /\ stack' = WithTop(Skipped(f))
                        /\ event' = [kind |-> "skip", reason |-> "missing", ref |-> include_ref]
                   ELSE IF PathSuffix(resolved.val) \notin YamlSuffixes \cup {PySuffix}
                   THEN /\ stack' = WithTop(Skipped(f))
                        /\ event' = [kind |-> "skip", reason |-> "unsupported", ref |-> include_ref]
                   ELSE IF ReadRaises(file)
                   THEN /\ stack' = WithTop(Skipped(f))
                        /\ event' = [kind |-> "skip", reason |-> "load_error", ref |-> include_ref,
                                      io |-> FileOps(resolved.val, file)]
                   ELSE /\ stack' = Append(
                               WithTop([f EXCEPT !.processed_sources = @ \cup {resolved.val}]),
                               [NewFrame(resolved.val, Document(resolved.val, file),
                                         PathParent(resolved.val),
                                         f.processed_sources \cup {resolved.val})
                                   EXCEPT !.open_files = f.open_files
                                       \cup StillOpen(FileOps(resolved.val, file))])
                        /\ event' = [kind |-> "enter", ref |-> include_ref,
                                      io |-> FileOps(resolved.val, file)]
    /\ UNCHANGED <<heap, explicit_path, srcs, refs, home, run, first, environ, pc, cur, config, loaded, loads, result>>

\* AfterCall as it would be if a file's path were recorded before the paths
\* of the files it includes
AfterCallParentFirst(caller, callee) ==
    LET merged == MergeConfigData(caller.merged_data, callee.merged_data)
        done == [caller EXCEPT !.idx = @ + 1,
                               !.processed_sources = @ \ {callee.path}]
    IN  IF callee.status = "raise" THEN done
        ELSE [done EXCEPT !.sources = @ \o <<callee.path>> \o callee.sources,
                          !.merged_data = IF merged.ok THEN merged.val ELSE @]

\* AfterCall as it would be with one set of visited paths for the whole load:
\* the callee's paths are kept and nothing is discarded
AfterCallKeepsVisited(caller, callee) ==
    LET merged == MergeConfigData(caller.merged_data, callee.merged_data)
        done == [caller EXCEPT !.idx = @ + 1,
                               !.processed_sources = @ \cup callee.processed_sources]
    IN  IF callee.status = "raise" THEN done
        ELSE [done EXCEPT !.sources = @ \o callee.sources \o <<callee.path>>,
                          !.merged_data = IF merged.ok THEN merged.val ELSE @]

\* AfterCall as it would be without the discard of the finally clause
AfterCallNoDiscard(caller, callee) ==
    LET merged == MergeConfigData(caller.merged_data, callee.merged_data)
        done == [caller EXCEPT !.idx = @ + 1]
    IN  IF callee.status = "raise" THEN done
        ELSE [done EXCEPT !.sources = @ \o callee.sources \o <<callee.path>>,
                          !.merged_data = IF merged.ok THEN merged.val ELSE @]

\* AfterCall as it would be if the data merged so far overrode the data of
\* the entry just loaded
AfterCallEarlierWins(caller, callee) ==
    LET merged == MergeConfigData(callee.merged_data, caller.merged_data)
        done == [caller EXCEPT !.idx = @ + 1,
                               !.processed_sources = @ \ {callee.path}]
    IN  IF callee.status = "raise" THEN done
        ELSE [done EXCEPT !.sources = @ \o callee.sources \o <<callee.path>>,
                          !.merged_data = IF merged.ok THEN merged.val ELSE @]

\* the caller's frame once the recursive call `callee` is over: the rest of
\* the try block, its except and its finally
AfterCall(caller, callee) ==
    LET merged == MergeConfigData(caller.merged_data, callee.merged_data)
        done == [caller EXCEPT !.idx = @ + 1,
                               !.processed_sources = @ \ {callee.path}]
    IN  IF callee.status = "raise" THEN done
        ELSE [done EXCEPT !.sources = @ \o callee.sources \o <<callee.path>>,
                          !.merged_data = IF merged.ok THEN merged.val ELSE @]

\* a recursive call of process_includes ends and its caller goes on
ReturnToInclude ==
    /\ pc = "includes" /\ Finished(Top) /\ Len(stack) > 1
    /\ LET callee == Top
           caller == stack[Len(stack) - 1]
       IN  /\ stack' = [SubSeq(stack, 1, Len(stack) - 1)
                           EXCEPT ![Len(stack) - 1] = AfterCall(caller, callee)]
           /\ event' =
                 IF callee.status = "raise"
                 THEN [kind |-> "skip", reason |-> "load_error",
                       ref |-> caller.includes[caller.idx]]
                 ELSE IF MergeConfigData(caller.merged_data, callee.merged_data).ok
                 THEN [kind |-> "merged", ref |-> caller.includes[caller.idx]]
                 ELSE [kind |-> "merge_failed", ref |-> caller.includes[caller.idx]]
    /\ UNCHANGED <<heap, explicit_path, srcs, fs, refs, budget, home, run, first, environ, pc, cur, config, loaded, loads, result>>

\* what load_yaml_config / load_python_config make of the outermost call of
\* _process_includes: the parsed configuration with its sources, or an error
LoadedConfig(frame) ==
    LET parsed == ParseToolbeltConfig(frame.merged_data)
    IN  IF frame.status = "raise" THEN Raise("TypeError")
        ELSE IF ~parsed.ok THEN parsed
        ELSE Ok([parsed.val EXCEPT !.sources = frame.sources \o <<frame.path>>])

\* the outermost call of _process_includes ends: parse, add the sources
ReturnToLoader ==
    /\ pc = "includes" /\ Finished(Top) /\ Len(stack) = 1
    /\ LET r == LoadedConfig(Top)
       IN  IF r.ok
           THEN /\ loaded' = r.val
                /\ loads' = Append(loads, r.val)
                /\ pc' = "merge"
                /\ event' = [kind |-> "loaded", path |-> Top.path]
           ELSE /\ pc' = "error"
                /\ event' = [kind |-> "load_failed", path |-> Top.path,
                              error |-> LoaderError(Top.path, r.exc)]
                /\ UNCHANGED <<loaded, loads>>
    /\ stack' = <<>>
    /\ UNCHANGED <<heap, explicit_path, srcs, fs, refs, budget, home, run, first, environ, cur, config, result>>

\* load_config takes the loaded file: the first as it is, a later one merged
\* over the configuration so far
Accumulate ==
    /\ pc = "merge"
    /\ config' = IF cur = 1 THEN loaded ELSE MergeConfigs(config, loaded)
    /\ cur' = cur + 1
    /\ pc' = IF cur + 1 > Len(srcs) THEN "overlay" ELSE "file"
    /\ event' = [kind |-> "accumulated"]
    /\ UNCHANGED <<heap, explicit_path, srcs, fs, refs, budget, home, run, first, environ, stack, loaded, loads, result>>

\* environments e1 and e2 differ only in variables whose names start with
\* none of the allowed prefixes
DifferOnlyOutOfPrefix(e1, e2) ==
    \A n \in DOMAIN e1 \cup DOMAIN e2 :
        HasAllowedPrefix(n) => n \in DOMAIN e1 /\ n \in DOMAIN e2 /\ e1[n] = e2[n]

\* the last step of load_config: the environment overlay
ApplyEnv ==
    /\ pc = "overlay"
    /\ \E e \in Environments :
          /\ run = 2 => DifferOnlyOutOfPrefix(first.environ, e)
          /\ environ' = e
          /\ result' = ApplyEnvironment(config, e)
    /\ pc' = "done"
    /\ event' = [kind |-> "overlay"]
    /\ UNCHANGED <<heap, explicit_path, srcs, fs, refs, budget, home, run, first, cur, stack, config, loaded, loads>>

Next ==
    \/ LoadDefault
    \/ LoadFile
    \/ LoadUnsupported
    \/ ProcessEntry
    \/ ReturnToInclude
    \/ ReturnToLoader
    \/ Accumulate
    \/ ApplyEnv

Spec == Init /\ [][Next]_vars

(***************************************************************************)
(* Two calls of load_config on the same files, in two environments that    *)
(* differ only in variables outside the allowed prefixes (HOME among them).*)
(***************************************************************************)
InitTwoRuns ==
    /\ srcs \in SourceLists(1)
    /\ explicit_path = NoneV
    /\ heap = EmptyDict
    /\ fs = EmptyDict
    /\ refs = HomeRefs
    /\ budget = MaxRefs - Len(srcs)
    /\ home \in Homes
    /\ run = 1
    /\ first = NoFirst
    /\ environ = EmptyDict
    /\ pc = "file"
    /\ cur = 1
    /\ stack = <<>>
    /\ config = NoConfig
    /\ loaded = NoConfig
    /\ loads = <<>>
    /\ result = NoConfig
    /\ event = NoEvent

\* the first call has returned; load_config is called again on the same
\* files, with HOME possibly changed
SecondRun ==
    /\ pc = "done" /\ run = 1
    /\ first' = [run |-> 1, result |-> result, environ |-> environ, home |-> home]
    /\ run' = 2
    /\ home' \in Homes
    /\ environ' = EmptyDict
    /\ pc' = "file"
    /\ cur' = 1
    /\ stack' = <<>>
    /\ config' = NoConfig
    /\ loaded' = NoConfig
    /\ loads' = <<>>
    /\ result' = NoConfig
    /\ event' = [kind |-> "second_run"]
    /\ UNCHANGED <<heap, explicit_path, srcs, fs, refs, budget>>

NextTwoRuns == Next \/ SecondRun

SpecTwoRuns == InitTwoRuns /\ [][NextTwoRuns]_vars

(***************************************************************************)
(* Properties of load_config                                               *)
(***************************************************************************)
\* the files of the list, by position, whose loaded configuration declares v
DeclaringLoads(v) == {k \in DOMAIN loads : v \in DOMAIN loads[k].variables}

\* the names the environment makes visible
VisibleNames == {n \in DOMAIN environ : HasAllowedPrefix(n)}

\* C1: when load_config has returned, every variable of the result has the
\* environment's value if its name starts with an allowed prefix and the
\* environment sets it, and otherwise the value of the last file of the list
\* that declares it; the result has no other variables.
C1_VariablePrecedence ==
    pc = "done" =>
        /\ DOMAIN result.variables =
              VisibleNames \cup UNION {DOMAIN loads[k].variables : k \in DOMAIN loads}
        /\ \A v \in DOMAIN result.variables :
              result.variables[v] =
                  IF v \in VisibleNames THEN environ[v]
                  ELSE loads[MaxOf(DeclaringLoads(v))].variables[v]

\* a.yaml then b.yaml with TB_V and TBV set in the environment: TB_V comes
\* from the environment, CI_V from the later file, TBV from the file although
\* the environment sets it, x from the earlier file
C1_Witness ==
    /\ pc = "done" /\ srcs = <<PathA, PathB>>
    /\ DOMAIN environ = {NameTB, NameTBV}
    /\ result.variables[NameTB] = EnvValue
    /\ result.variables[NameCI] = PathB
    /\ result.variables[NameTBV] = PathB
    /\ result.variables[NameX] = PathA

(***************************************************************************)
(* Two calls in environments that differ only outside the allowed prefixes *)
(***************************************************************************)
\* C2, as stated: the second call returns the variables the first call
\* returned (and so the same configuration).  HOME starts with no allowed
\* prefix, and a '~/' include reference expands through it.
C2_SameVariables ==
    pc = "done" /\ run = 2 /\ srcs # <<>> /\ PathSuffix(srcs[1]) \in YamlSuffixes
        => result.variables = first.result.variables

\* C2, for environments that also agree on HOME: the second call returns
\* the configuration the first call returned, so no other out-of-prefix
\* variable adds, removes or changes a variable of the result.
C2_SameResultSameHome ==
    pc = "done" /\ run = 2 /\ home = first.home => result = first.result

\* both calls ran with the same HOME, the second with TBV set and the first
\* without, on a file that declares TBV and has loaded an include
C2_Witness ==
    /\ pc = "done" /\ run = 2 /\ home = first.home
    /\ NameTBV \in DOMAIN environ /\ NameTBV \notin DOMAIN first.environ
    /\ NameTB \in DOMAIN environ
    /\ Len(result.sources) = 2
    /\ NameTBV \in DOMAIN result.variables

(***************************************************************************)
(* The order of sources                                                    *)
(***************************************************************************)
\* the include entry ref of a file in directory base_path is loaded, given
\* the paths in progress: it resolves, is not in progress, is on disk (or
\* packaged), has a supported suffix and is read to a document that is not
\* None
EntryIsLoaded(ref, base_path, in_progress) ==
    LET r == ResolveConfigReference(ref, base_path)
    IN  /\ r.ok
        /\ r.val \notin in_progress
        /\ r.val \in DOMAIN fs
        /\ StartsWith(ref, <<"@">>) \/ fs[r.val].kind # "missing"
        /\ PathSuffix(r.val) \in YamlSuffixes \cup {PySuffix}
        /\ ~ReadRaises(fs[r.val])
        /\ fs[r.val].kind # "null"

RECURSIVE ChildrenThenSelf(_, _)
RECURSIVE ChildrenInOrder(_, _, _)
\* the file at path, preceded by the files loaded through its include list
ChildrenThenSelf(path, in_progress) ==
    ChildrenInOrder(fs[path].include, PathParent(path), in_progress) \o <<path>>

\* the files loaded through the entries of one include list, entry by entry
ChildrenInOrder(includes, base_path, in_progress) ==
    IF includes = <<>> THEN <<>>
    ELSE LET p == ResolveConfigReference(includes[1], base_path).val
         IN  (IF EntryIsLoaded(includes[1], base_path, in_progress)
              THEN ChildrenThenSelf(p, in_progress \cup {p})
              ELSE <<>>)
             \o ChildrenInOrder(Tail(includes), base_path, in_progress)

\* C3: the sources of a configuration loaded from one top-level file list
\* every loaded file after the files loaded through its own includes, the
\* entries of one include list in their declared order, and the top-level
\* file last; for a.yaml that includes only b.yaml, which includes nothing,
\* the list is exactly [b.yaml, a.yaml].
C3_SourcesOrder ==
    event.kind = "loaded" =>
        /\ loaded.sources = ChildrenThenSelf(event.path, {})
        /\ loaded.sources[Len(loaded.sources)] = event.path
        /\ (/\ event.path = PathA /\ fs[PathA].include = <<RefB>>
            /\ fs[PathB].kind = "map" /\ fs[PathB].include = <<>>)
           => loaded.sources = <<PathB, PathA>>

\* a.yaml includes b.yaml, which includes c.yml
C3_Witness ==
    /\ event.kind = "loaded" /\ event.path = PathA
    /\ fs[PathA].include = <<RefB>>
    /\ loaded.sources = <<PathC, PathB, PathA>>

(***************************************************************************)
(* merge_configs on its own: one call on a pair of typed configurations    *)
(***************************************************************************)
\* the fields of a profile that merge_configs takes from either side
MergedFields ==
    {"exclude_patterns", "ignore_files", "check_tools", "format_tools", "extensions"}

\* a ProfileConfig named n whose values carry the mark p of the configuration
\* that holds it; the fields in nonempty are set, the others are empty lists
ProfileOf(n, p, nonempty) ==
    [name |-> n,
     extensions |-> IF "extensions" \in nonempty THEN <<p>> ELSE <<>>,
     check_tools |-> IF "check_tools" \in nonempty
                     THEN <<ParseTool(RawTool(p)), ParseTool(RawTool(DupPattern))>>
                     ELSE <<>>,
     format_tools |-> IF "format_tools" \in nonempty
                      THEN <<ParseTool(RawTool(p))>> ELSE <<>>,
     exclude_patterns |-> IF "exclude_patterns" \in nonempty THEN <<p>> ELSE <<>>,
     ignore_files |-> IF "ignore_files" \in nonempty THEN <<p>> ELSE <<>>]

\* the profiles a configuration marked p may hold: py (with any of its fields
\* empty) or not, js (all fields set) or not
ProfileMaps(p) ==
    LET pys == {ProfileOf("py", p, ne) : ne \in SUBSET MergedFields}
        js == ProfileOf("js", p, MergedFields)
    IN  {EmptyDict}
        \cup {[n \in {"js"} |-> js]}
        \cup {[n \in {"py"} |-> py] : py \in pys}
        \cup {[n \in {"py", "js"} |-> IF n = "py" THEN py ELSE js] : py \in pys}

\* the ToolbeltConfig values merge_configs is called with
ConfigsOf(p) ==
    {[sources |-> <<p>>,
      profiles |-> pm,
      global_exclude_patterns |-> <<p, DupPattern>>,
      variables |-> [v \in {NameTB, NameX} |-> p]] : pm \in ProfileMaps(p)}

\* config is base, loaded is override
InitMerge ==
    /\ config \in ConfigsOf(PathA)
    /\ loaded \in ConfigsOf(PathB)
    /\ pc = "pair"
    /\ result = NoConfig
    /\ srcs = <<>>
    /\ explicit_path = NoneV
    /\ heap = EmptyDict
    /\ fs = EmptyDict
    /\ refs = {}
    /\ budget = 0
    /\ home = HomeDir
    /\ environ = EmptyDict
    /\ cur = 1
    /\ stack = <<>>
    /\ loads = <<>>
    /\ event = NoEvent
    /\ run = 1
    /\ first = NoFirst

\* result = merge_configs(base, override)
MergePair ==
    /\ pc = "pair"
    /\ result' = MergeConfigs(config, loaded)
    /\ pc' = "merged"
    /\ event' = [kind |-> "merge_configs"]
    /\ UNCHANGED <<heap, explicit_path, srcs, fs, refs, budget, home, environ, cur, stack, config,
                   loaded, loads, run, first>>

NextMerge == MergePair

SpecMerge == InitMerge /\ [][NextMerge]_vars

OwnPatterns(p) ==
    IF "global_exclude_patterns" \in DOMAIN OwnData(p)
    THEN OwnData(p).global_exclude_patterns.v ELSE <<>>

\* the concatenation of f[1], ..., f[n] for a sequence f of sequences
RECURSIVE Concatenation(_)
Concatenation(f) ==
    IF f = <<>> THEN <<>> ELSE f[1] \o Concatenation(Tail(f))

\* C5: when load_config has returned, global_exclude_patterns of the result
\* is the concatenation, in list order, of the patterns of each source's
\* loaded configuration, duplicates kept; when no source has includes, that
\* is the concatenation of the patterns the files declare.
C5_PatternsConcatenated ==
    pc = "done" =>
        /\ result.global_exclude_patterns =
              Concatenation([k \in DOMAIN loads |-> loads[k].global_exclude_patterns])
        /\ (srcs # <<>> /\ \A k \in DOMAIN srcs : fs[srcs[k]].include = <<>>)
           => result.global_exclude_patterns =
                  Concatenation([k \in DOMAIN srcs |-> OwnPatterns(srcs[k])])

\* three sources, two of which declare the same pattern
C5_Witness ==
    /\ pc = "done" /\ srcs = <<PathA, PathB, PathPy>>
    /\ result.global_exclude_patterns = <<PathA, DupPattern, DupPattern, PathPy>>

\* C6: when load_config has returned from two or more sources, the sources
\* of the result are the concatenation, in list order, of each file's own
\* list: the files loaded through its includes, then its own path.
C6_SourcesConcatenated ==
    pc = "done" /\ Len(srcs) >= 2 =>
        /\ result.sources =
              Concatenation([k \in DOMAIN srcs |-> ChildrenThenSelf(srcs[k], {})])
        /\ result.sources = Concatenation([k \in DOMAIN loads |-> loads[k].sources])

\* a.yaml, which includes c.yml, then b.yaml, with the overlay applied
C6_Witness ==
    /\ pc = "done" /\ srcs = <<PathA, PathB>>
    /\ DOMAIN environ # {}
    /\ result.sources = <<PathC, PathA, PathB>>

(***************************************************************************)
(* A file and the files it includes                                        *)
(***************************************************************************)
\* the variables and the profiles the file at path p declares itself
OwnVariables(p) ==
    IF "variables" \in DOMAIN OwnData(p) THEN OwnData(p).variables.v ELSE EmptyDict

OwnProfiles(p) ==
    IF "profiles" \in DOMAIN OwnData(p) THEN OwnData(p).profiles.v ELSE EmptyDict

\* C7: a configuration loaded from a file holds that file's own declaration
\* of every variable and of every profile the file declares, whatever the
\* files it includes declare under the same names: the including file
\* overrides what it includes.
C7_IncludingFileWins ==
    event.kind = "loaded" =>
        /\ \A v \in DOMAIN OwnVariables(event.path) :
              loaded.variables[v] = OwnVariables(event.path)[v]
        /\ \A n \in DOMAIN OwnProfiles(event.path) :
              loaded.profiles[n] = ParseProfile(n, OwnProfiles(event.path)[n])

\* the paths the include list of the file at path p resolves to
IncludedPaths(p) ==
    IF p \notin DOMAIN fs THEN {}
    ELSE {ResolveConfigReference(fs[p].include[k], PathParent(p)).val :
            k \in {j \in DOMAIN fs[p].include :
                     ResolveConfigReference(fs[p].include[j], PathParent(p)).ok}}

\* the paths reachable from the paths in S along include lists, S included
RECURSIVE Closure(_)
Closure(S) ==
    LET T == S \cup UNION {IncludedPaths(p) : p \in S}
    IN  IF T = S THEN S ELSE Closure(T)

\* the include graph of the file at path top
GraphOf(top) == Closure({top})

\* the include graph of the file at path top contains a cycle
HasCycle(top) == \E p \in GraphOf(top) : p \in Closure(IncludedPaths(p))

RECURSIVE DataOfFile(_, _)
RECURSIVE DataOfEntries(_, _, _, _)
\* the merged data of the file at path, computed from its include list with
\* the entries that are not loaded removed
DataOfFile(path, in_progress) ==
    LET doc == Document(path, fs[path])
        own == IF IsDict(doc) /\ "include" \in DOMAIN doc.v
               THEN DictV(DictWithout(doc.v, "include")) ELSE doc
    IN  DataOfEntries(own, fs[path].include, PathParent(path), in_progress)

\* acc with the data of the loaded entries of includes merged in, in order
DataOfEntries(acc, includes, base_path, in_progress) ==
    IF includes = <<>> THEN acc
    ELSE LET p == ResolveConfigReference(includes[1], base_path).val
             m == MergeConfigData(acc, DataOfFile(p, in_progress \cup {p}))
             next == IF EntryIsLoaded(includes[1], base_path, in_progress) /\ m.ok
                     THEN m.val ELSE acc
         IN  DataOfEntries(next, Tail(includes), base_path, in_progress)

\* a step that skips an entry leaves the merged data and the sources of the
\* call as they are and moves the loop to the next entry
SkipStep ==
    event'.kind = "skip" =>
        LET k == Len(stack')
        IN  /\ stack'[k].merged_data = stack[k].merged_data
            /\ stack'[k].sources = stack[k].sources
            /\ stack'[k].idx = stack[k].idx + 1
            /\ stack'[k].status = "loop"

\* a call of process_includes that has finished its loop holds the merged
\* data of its include list with the skipped entries removed
SkippedEntriesRemoved ==
    \A k \in DOMAIN stack :
        Finished(stack[k]) /\ stack[k].status = "loop" =>
            stack[k].merged_data = DataOfFile(stack[k].path, stack[k].processed_sources)

\* C9: an include entry that is skipped contributes nothing and stops
\* nothing: the step that skips it changes neither the merged data nor the
\* sources and goes on to the next entry, and the merged data a call of
\* process_includes returns is the merged data of its include list with the
\* skipped entries removed.
C9_SkipContributesNothing ==
    [][SkipStep]_vars /\ []SkippedEntriesRemoved

\* a.yaml includes d.json, which is skipped, and then b.yaml, which is merged
C9_Witness ==
    /\ pc = "includes" /\ Len(stack) = 1 /\ Finished(Top)
    /\ Top.path = PathA /\ Top.includes = <<RefJson, RefB>>
    /\ Top.sources = <<PathB>>
    /\ NameTBV \in DOMAIN Top.merged_data.v.variables.v

(***************************************************************************)
(* Includes and the fate of the load                                       *)
(***************************************************************************)
\* C10: loading a top-level YAML file whose own content is valid returns a
\* configuration, whatever its include entries refer to and whatever the
\* included files hold, and that configuration has the variables and the
\* profiles the top-level file declares.
C10_IncludeNeverFatal ==
    (/\ event.kind \in {"loaded", "load_failed"}
     /\ event.path \in DOMAIN fs
     /\ PathSuffix(event.path) \in YamlSuffixes
     /\ fs[event.path].kind = "map")
    => /\ event.kind = "loaded"
       /\ DOMAIN OwnVariables(event.path) \subseteq DOMAIN loaded.variables
       /\ DOMAIN OwnProfiles(event.path) \subseteq DOMAIN loaded.profiles

(***************************************************************************)
(* C11  A failure while loading a top-level file is a ValueError           *)
(***************************************************************************)
\* the top-level file at path p is one whose load fails on its own account
FailsOnItsOwn(p) ==
    \/ PathSuffix(p) \notin YamlSuffixes \cup {PySuffix}
    \/ p \in DOMAIN fs /\ fs[p].kind # "map"

\* C11: when the load of a top-level file fails, load_config raises a
\* ValueError; for a YAML or Python file its message holds the file's path
\* and it is raised from the underlying cause; no configuration is returned.
\* And load_config gets past a file only if that file does not fail on its
\* own account.
C11_LoadFailureIsValueError ==
    /\ pc = "error" =>
          /\ event.kind = "load_failed"
          /\ event.path = srcs[cur]
          /\ event.error.type = "ValueError"
          /\ PathSuffix(event.path) \in YamlSuffixes \cup {PySuffix} =>
                /\ \E i \in DOMAIN event.error.message :
                       event.error.message[i] = event.path
                /\ event.error.cause # "None"
          /\ result = NoConfig
    /\ \A k \in DOMAIN srcs :
          k < cur \/ (k = cur /\ pc = "merge") => ~FailsOnItsOwn(srcs[k])

C11_Witness ==
    /\ pc = "error" /\ cur = 2
    /\ event.kind = "load_failed"
    /\ event.error.cause = "ValidationError"
    /\ fs[event.path].kind = "map"

(***************************************************************************)
(* load_config over files whose includes are package references (one of an *)
(* unknown package, one of a missing resource, one that resolves) or       *)
(* a.yaml.                                                                 *)
(***************************************************************************)
PackageRefs == {RefPkg, RefUnknownPkg, RefMissingRes, RefA}

InitPackages ==
    /\ srcs \in SourceLists(MaxRefs)
    /\ explicit_path = NoneV
    /\ heap = EmptyDict
    /\ fs = EmptyDict
    /\ refs = PackageRefs
    /\ budget = MaxRefs - Len(srcs)
    /\ home = HomeDir
    /\ run = 1
    /\ first = NoFirst
    /\ environ = EmptyDict
    /\ pc = "file"
    /\ cur = 1
    /\ stack = <<>>
    /\ config = NoConfig
    /\ loaded = NoConfig
    /\ loads = <<>>
    /\ result = NoConfig
    /\ event = NoEvent

SpecPackages == InitPackages /\ [][Next]_vars

(***************************************************************************)
(* C12  A package reference that fails to resolve is skipped               *)
(***************************************************************************)
\* ref is a package reference that the package resolver rejects
PackageFailure(ref) ==
    StartsWith(ref, <<"@">>) /\ ~ResolvePackageResource(ref).ok

\* the loop of process_includes is at an entry that is such a reference:
\* the step skips it, and nothing but the loop index moves
PackageFailureStep ==
    (pc = "includes" /\ ~Finished(Top) /\ PackageFailure(Top.includes[Top.idx]))
    => /\ stack' = [stack EXCEPT ![Len(stack)].idx = @ + 1]
       /\ event' = [kind |-> "skip", reason |-> "unresolved",
                    ref |-> Top.includes[Top.idx]]
       /\ pc' = pc

\* a well-formed top-level file all of whose include entries are such
\* references loads, as the file alone
OnlyPackageFailuresLoads ==
    (/\ event.kind \in {"loaded", "load_failed"}
     /\ event.path \in DOMAIN fs
     /\ fs[event.path].kind = "map"
     /\ \A i \in DOMAIN fs[event.path].include : PackageFailure(fs[event.path].include[i]))
    => /\ event.kind = "loaded"
       /\ loaded = [ParseToolbeltConfig(DictV(OwnData(event.path))).val
                        EXCEPT !.sources = <<event.path>>]

MaxManifestRefs == 2

\* Path.cwd()
Cwd == ProjectDir

PyprojectName == <<"p", "y", "p", "r", "o", "j", "e", "c", "t", ".", "t", "o", "m", "l">>
StandaloneNames == <<<<"t", "o", "o", "l", "b", "e", "l", "t", ".", "y", "a", "m", "l">>,
                     <<"t", "o", "o", "l", "b", "e", "l", "t", ".", "y", "m", "l">>,
                     <<"t", "o", "o", "l", "b", "e", "l", "t", ".", "p", "y">>>>

\* a config_path argument that is given
PathV(p) == [t |-> "path", v |-> p]

\* Path.exists()
PathExists(p) == p \in DOMAIN fs /\ fs[p].kind # "missing"

\* tomllib.load(f) of a manifest that can be read and parsed
TomlDocument(f) ==
    IF f.kind = "no_tool" THEN DictV([project |-> DictV(EmptyDict)])
    ELSE IF f.kind = "no_toolbelt" THEN DictV([tool |-> DictV([ruff |-> DictV(EmptyDict)])])
    ELSE IF f.kind = "empty_toolbelt"
         THEN DictV([tool |-> DictV([toolbelt |-> DictV(EmptyDict)])])
    ELSE IF f.kind = "no_include"
         THEN DictV([tool |-> DictV([toolbelt |-> DictV([sources |-> ListV(<<>>)])])])
    ELSE IF f.kind = "tool_scalar" THEN DictV([tool |-> StrV(<<"x">>)])
    ELSE DictV([tool |-> DictV([toolbelt |-> DictV([include |-> ListV(f.include)])])])

\* load_pyproject_toml(pyproject_path): Ok(the toolbelt table or None), or
\* the exception its except clause does not catch (str has no get)
LoadPyprojectToml(pyproject_path) ==
    LET f == fs[pyproject_path]
    IN  IF f.kind \in {"missing", "unreadable", "unparsable"} THEN Ok(NoneV)
        ELSE LET data == TomlDocument(f)
                 tool == IF "tool" \in DOMAIN data.v THEN data.v.tool
                         ELSE DictV(EmptyDict)
             IN  IF ~IsDict(tool) THEN Raise("AttributeError")
                 ELSE IF "toolbelt" \in DOMAIN tool.v THEN Ok(tool.v.toolbelt)
                 ELSE Ok(NoneV)

\* the loop of _load_from_pyproject_includes: the references that resolve
\* and, unless they are package references, exist
RECURSIVE IncludedSources(_, _)
IncludedSources(includes, base) ==
    IF includes = <<>> THEN <<>>
    ELSE LET config_ref == Head(includes)
             resolved_path == ResolveConfigReference(config_ref, base)
             rest == IncludedSources(Tail(includes), base)
         IN  IF resolved_path.ok
                /\ (StartsWith(config_ref, <<"@">>) \/ PathExists(resolved_path.val))
             THEN <<resolved_path.val>> \o rest
             ELSE rest

\* _load_from_pyproject_includes(cwd): Ok(sources) or the exception of
\* load_pyproject_toml
LoadFromPyprojectIncludes(base) ==
    LET pyproject_path == PathJoin(base, PyprojectName)
        r == LoadPyprojectToml(pyproject_path)
    IN  IF ~PathExists(pyproject_path) THEN Ok(<<>>)
        ELSE IF ~r.ok THEN r
        ELSE IF r.val = NoneV \/ DOMAIN r.val.v = {} THEN Ok(<<>>)
        ELSE IF "include" \notin DOMAIN r.val.v THEN Ok(<<>>)
        ELSE Ok(IncludedSources(r.val.v.include.v, base))

\* _find_standalone_config(cwd)
FindStandaloneConfig(base) ==
    LET found == {i \in DOMAIN StandaloneNames :
                     PathExists(PathJoin(base, StandaloneNames[i]))}
    IN  IF found = {} THEN <<>>
        ELSE <<PathJoin(base, StandaloneNames[MinOf(found)])>>

\* the references a manifest's include list is drawn from
ManifestRefs == {RefA, RefB, RefPkg, RefUnknownPkg}

ManifestFiles(n) ==
    {File(k, <<>>) : k \in {"missing", "unreadable", "unparsable", "no_tool",
                            "no_toolbelt", "empty_toolbelt", "no_include",
                            "tool_scalar"}}
    \cup {File("map", inc) : inc \in SeqsUpTo(ManifestRefs, n)}

\* the paths that may or may not exist
DiskPaths == {PathA, PathB} \cup {PathJoin(Cwd, StandaloneNames[i]) : i \in DOMAIN StandaloneNames}

InitDiscovery ==
    /\ explicit_path \in {NoneV, PathV(PathA)}
    /\ heap = EmptyDict
    /\ \E manifest \in ManifestFiles(MaxManifestRefs) :
       \E disk \in [DiskPaths -> {File("missing", <<>>), File("map", <<>>)}] :
          fs = [p \in DiskPaths \cup {PathJoin(Cwd, PyprojectName)} |->
                   IF p \in DiskPaths THEN disk[p] ELSE manifest]
    /\ srcs = <<>>
    /\ refs = ManifestRefs
    /\ budget = 0
    /\ home = HomeDir
    /\ run = 1
    /\ first = NoFirst
    /\ environ = EmptyDict
    /\ pc = "find"
    /\ cur = 1
    /\ stack = <<>>
    /\ config = NoConfig
    /\ loaded = NoConfig
    /\ loads = <<>>
    /\ result = NoConfig
    /\ event = NoEvent

\* find_config_sources with a config_path
FindExplicit ==
    /\ pc = "find" /\ explicit_path # NoneV
    /\ srcs' = IF PathExists(explicit_path.v) THEN <<explicit_path.v>> ELSE <<>>
    /\ pc' = "found"
    /\ event' = [kind |-> "explicit"]
    /\ UNCHANGED <<heap, explicit_path, fs, refs, budget, home, run, first, environ, cur,
                   stack, config, loaded, loads, result>>

\* find_config_sources without one: the includes of the manifest, returned
\* if there are any
FindFromPyproject ==
    /\ pc = "find" /\ explicit_path = NoneV
    /\ LET r == LoadFromPyprojectIncludes(Cwd)
       IN  IF ~r.ok
           THEN /\ pc' = "find_error"
                /\ event' = [kind |-> "find_raised", error |-> r.exc]
                /\ srcs' = srcs
           ELSE /\ pc' = IF r.val # <<>> THEN "found" ELSE "standalone"
                /\ event' = [kind |-> "manifest", sources |-> r.val]
                /\ srcs' = r.val
    /\ UNCHANGED <<heap, explicit_path, fs, refs, budget, home, run, first, environ, cur,
                   stack, config, loaded, loads, result>>

\* the manifest gave nothing: the standalone files
FindStandalone ==
    /\ pc = "standalone"
    /\ srcs' = FindStandaloneConfig(Cwd)
    /\ pc' = "found"
    /\ event' = [kind |-> "standalone"]
    /\ UNCHANGED <<heap, explicit_path, fs, refs, budget, home, run, first, environ, cur,
                   stack, config, loaded, loads, result>>

NextDiscovery == FindExplicit \/ FindFromPyproject \/ FindStandalone

SpecDiscovery == InitDiscovery /\ [][NextDiscovery]_vars

(***************************************************************************)
(* C13  find_config_sources applies the first applicable rule              *)
(***************************************************************************)
\* the include list the manifest declares
DeclaredIncludes ==
    LET f == fs[PathJoin(Cwd, PyprojectName)]
    IN  IF f.kind = "map" THEN f.include ELSE <<>>

\* reference ref resolves and, unless it is a package reference, exists
Usable(ref) ==
    IF StartsWith(ref, <<"@">>) THEN ResolvePackageResource(ref).ok
    ELSE PathExists(PathJoin(Cwd, ref))

\* the path of a usable reference
UsablePath(ref) ==
    IF StartsWith(ref, <<"@">>) THEN ResolvePackageResource(ref).val
    ELSE PathJoin(Cwd, ref)

\* the paths of the usable references of a list, in the order of the list
RECURSIVE UsablePaths(_)
UsablePaths(includes) ==
    IF includes = <<>> THEN <<>>
    ELSE (IF Usable(Head(includes)) THEN <<UsablePath(Head(includes))>> ELSE <<>>)
         \o UsablePaths(Tail(includes))

\* what the rules give
ExpectedSources ==
    IF explicit_path # NoneV
    THEN IF PathExists(explicit_path.v) THEN <<explicit_path.v>> ELSE <<>>
    ELSE IF UsablePaths(DeclaredIncludes) # <<>> THEN UsablePaths(DeclaredIncludes)
    ELSE IF PathExists(PathJoin(Cwd, StandaloneNames[1]))
         THEN <<PathJoin(Cwd, StandaloneNames[1])>>
    ELSE IF PathExists(PathJoin(Cwd, StandaloneNames[2]))
         THEN <<PathJoin(Cwd, StandaloneNames[2])>>
    ELSE IF PathExists(PathJoin(Cwd, StandaloneNames[3]))
         THEN <<PathJoin(Cwd, StandaloneNames[3])>>
    ELSE <<>>

\* C13: find_config_sources returns what the first applicable rule gives:
\* the explicit path if it exists (else nothing), else the usable includes
\* of the manifest if there are any, else the first existing standalone
\* file, else nothing.
C13_FirstApplicableRule ==
    pc \in {"found", "find_error"} => pc = "found" /\ srcs = ExpectedSources

\* the same, for the calls that return
C13_RuleWhenReturned ==
    pc = "found" => srcs = ExpectedSources

(***************************************************************************)
(* C14  The sources a manifest declares                                    *)
(***************************************************************************)
\* C14: the manifest step raises nothing, and its sources are the usable
\* references of the declared include list, in declared order (none for a
\* manifest that is missing, unreadable, malformed or without an include).
C14_ManifestSources ==
    event.kind \in {"manifest", "find_raised"}
    => event.kind = "manifest" /\ event.sources = UsablePaths(DeclaredIncludes)

\* the same, for the manifests whose tool key is a table
C14_SourcesOfTypedManifest ==
    (/\ event.kind \in {"manifest", "find_raised"}
     /\ fs[PathJoin(Cwd, PyprojectName)].kind # "tool_scalar")
    => event.kind = "manifest" /\ event.sources = UsablePaths(DeclaredIncludes)

(***************************************************************************)
(* One call resolve_config_reference(config_ref, base_path), on every      *)
(* string of at most MaxRefLen characters of RefChars and on the           *)
(* references of the include lists.  The call and what it returns are held *)
(* in event.                                                               *)
(***************************************************************************)
MaxRefLen == 3

RefChars == {"@", "~", "/", "a", "."}

ConfigRefs ==
    SeqsUpTo(RefChars, MaxRefLen)
    \cup {RefA, RefPkg, RefUnknownPkg, RefMissingRes, RefHomeA}

InitResolve ==
    /\ \E config_ref \in ConfigRefs, base_path \in {ProjectDir, PackageDir} :
          event = [kind |-> "call", config_ref |-> config_ref, base_path |-> base_path]
    /\ home \in Homes
    /\ pc = "resolve"
    /\ explicit_path = NoneV
    /\ heap = EmptyDict
    /\ srcs = <<>>
    /\ fs = EmptyDict
    /\ refs = {}
    /\ budget = 0
    /\ run = 1
    /\ first = NoFirst
    /\ environ = EmptyDict
    /\ cur = 1
    /\ stack = <<>>
    /\ config = NoConfig
    /\ loaded = NoConfig
    /\ loads = <<>>
    /\ result = NoConfig

Resolve ==
    /\ pc = "resolve"
    /\ event' = [kind |-> "resolved",
                 config_ref |-> event.config_ref,
                 base_path |-> event.base_path,
                 value |-> ResolveConfigReference(event.config_ref, event.base_path)]
    /\ pc' = "resolved"
    /\ UNCHANGED <<heap, explicit_path, srcs, fs, refs, budget, home, run, first, environ,
                   cur, stack, config, loaded, loads, result>>

NextResolve == Resolve

SpecResolve == InitResolve /\ [][NextResolve]_vars

C16_DefaultWhenNoSources ==
    (srcs = <<>> /\ pc \in {"overlay", "done"})
    => /\ fs = EmptyDict
       /\ loads = <<DefaultConfig>>
       /\ config = DefaultConfig
       /\ pc = "done" =>
             /\ result.sources = DefaultConfig.sources
             /\ result.profiles = DefaultConfig.profiles
             /\ result.global_exclude_patterns = DefaultConfig.global_exclude_patterns
             /\ \A n \in DOMAIN result.variables :
                    result.variables[n] =
                       IF n \in DOMAIN environ /\ HasAllowedPrefix(n) THEN environ[n]
                       ELSE DefaultConfig.variables[n]
             /\ DOMAIN DefaultConfig.variables \subseteq DOMAIN result.variables

C16_Witness ==
    /\ srcs = <<>> /\ pc = "done"
    /\ result.variables # DefaultConfig.variables
    /\ result.sources = <<PathPkg>>

(***************************************************************************)
(* One call _merge_config_data(base_data, override_data) on well-typed     *)
(* documents: each of the keys variables, profiles, global_exclude_patterns*)
(* and name is absent or has one of two values that carry the mark of the  *)
(* side (b for base_data, o for override_data).  The call and what it      *)
(* returns are held in event.                                              *)
(***************************************************************************)
RawKeys == {"variables", "profiles", "global_exclude_patterns", "name"}

\* a raw profile of the side marked p: base's has a field override's lacks
RawProfile(p) ==
    IF p = <<"b">> THEN [extensions |-> <<ExtPy>>, exclude_patterns |-> <<p>>]
    ELSE [extensions |-> <<ExtJs>>]

\* the value of key k on the side marked p, in its short or long variant;
\* the long variants of the two sides hold an entry the other side lacks
RawValue(k, p, variant) ==
    LET own == IF p = <<"b">> THEN "js" ELSE "go"
        var == IF p = <<"b">> THEN NameX ELSE NameCI
    IN  IF k = "variables"
        THEN DictV([n \in (IF variant = "long" THEN {NameTB, var} ELSE {NameTB}) |-> p])
        ELSE IF k = "profiles"
        THEN DictV([n \in (IF variant = "long" THEN {"py", own} ELSE {"py"}) |->
                       RawProfile(p)])
        ELSE IF k = "global_exclude_patterns"
        THEN ListV(IF variant = "long" THEN <<p, DupPattern>> ELSE <<DupPattern>>)
        ELSE IF variant = "long" THEN ListV(<<p>>) ELSE StrV(p)

RawDocuments(p) ==
    {DictV([k \in keys |-> RawValue(k, p, variant[k])]) :
        keys \in SUBSET RawKeys, variant \in [RawKeys -> {"short", "long"}]}

InitMergeData ==
    /\ \E base_data \in RawDocuments(<<"b">>), override_data \in RawDocuments(<<"o">>) :
          event = [kind |-> "call", base_data |-> base_data,
                   override_data |-> override_data]
    /\ pc = "merge_data"
    /\ explicit_path = NoneV
    /\ heap = EmptyDict
    /\ srcs = <<>>
    /\ fs = EmptyDict
    /\ refs = {}
    /\ budget = 0
    /\ home = HomeDir
    /\ run = 1
    /\ first = NoFirst
    /\ environ = EmptyDict
    /\ cur = 1
    /\ stack = <<>>
    /\ config = NoConfig
    /\ loaded = NoConfig
    /\ loads = <<>>
    /\ result = NoConfig

MergeData ==
    /\ pc = "merge_data"
    /\ event' = [kind |-> "returned",
                 base_data |-> event.base_data,
                 override_data |-> event.override_data,
                 value |-> MergeConfigData(event.base_data, event.override_data)]
    /\ pc' = "merged_data"
    /\ UNCHANGED <<heap, explicit_path, srcs, fs, refs, budget, home, run, first, environ,
                   cur, stack, config, loaded, loads, result>>

NextMergeData == MergeData

SpecMergeData == InitMergeData /\ [][NextMergeData]_vars

(***************************************************************************)
(* C17  _merge_config_data, key by key                                     *)
(***************************************************************************)
\* mapping m is the union of mappings b and o, o's entry where both have one
UnionOverrideWins(m, b, o) ==
    /\ DOMAIN m = DOMAIN b \cup DOMAIN o
    /\ \A n \in DOMAIN m : m[n] = IF n \in DOMAIN o THEN o[n] ELSE b[n]

\* C17: the merged mapping has the keys of both; profiles and variables in
\* both are united with override's entry for a name in both; the patterns
\* in both are base's list followed by override's, duplicates kept; any
\* other key of override has override's value; a key of base alone keeps
\* base's value.
C17_MergeConfigData ==
    event.kind = "returned" =>
        LET b == event.base_data.v
            o == event.override_data.v
        IN  /\ event.value.ok /\ IsDict(event.value.val)
            /\ DOMAIN event.value.val.v = DOMAIN b \cup DOMAIN o
            /\ \A k \in DOMAIN event.value.val.v :
                  LET m == event.value.val.v[k]
                  IN  IF k \notin DOMAIN o THEN m = b[k]
                      ELSE IF k \notin DOMAIN b THEN m = o[k]
                      ELSE IF k \in {"profiles", "variables"}
                      THEN IsDict(m) /\ UnionOverrideWins(m.v, b[k].v, o[k].v)
                      ELSE IF k = "global_exclude_patterns"
                      THEN m = ListV(b[k].v \o o[k].v)
                      ELSE m = o[k]

C17_Witness ==
    /\ event.kind = "returned"
    /\ DOMAIN event.base_data.v = RawKeys
    /\ DOMAIN event.override_data.v = RawKeys
    /\ event.value.ok
    /\ event.value.val.v.global_exclude_patterns =
          ListV(<<<<"b">>, DupPattern, <<"o">>, DupPattern>>)
    /\ DOMAIN event.value.val.v.profiles.v = {"py", "js", "go"}
    /\ event.value.val.v.profiles.v["py"] = RawProfile(<<"o">>)

(***************************************************************************)
(* C18  No file is loaded while its own load is in progress                *)
(***************************************************************************)
\* C18: the files whose loads are in progress (the top-level file and the
\* includes on the current branch) are pairwise distinct: none of them is
\* read again before its load is over.
C18_NoLoadWhileInProgress ==
    \A i, j \in DOMAIN stack : stack[i].path = stack[j].path => i = j

\* the same, for the included files alone
C18_NoIncludeWhileInProgress ==
    \A i, j \in DOMAIN stack \ {1} : stack[i].path = stack[j].path => i = j

(***************************************************************************)
(* The load of one file, with a.yaml, b.yaml and c.yml given from the      *)
(* start: each is missing or a well-formed mapping, and their include      *)
(* lists hold up to MaxRefs entries in all: self-includes, cycles of       *)
(* length two and three, a file listed twice.  load_config is a            *)
(* sequential program: a step that can be taken is taken.                  *)
(***************************************************************************)
CycleRefs == {RefA, RefB, RefC}

CycleFiles(n) ==
    {File("missing", <<>>)} \cup {File("map", inc) : inc \in SeqsUpTo(CycleRefs, n)}

CycleFileSystems(n) ==
    {disk \in [{PathA, PathB, PathC} -> CycleFiles(n)] :
        Len(disk[PathA].include) + Len(disk[PathB].include)
            + Len(disk[PathC].include) <= n}

InitCycles ==
    /\ srcs \in SourceLists(1)
    /\ explicit_path = NoneV
    /\ heap = EmptyDict
    /\ fs \in CycleFileSystems(MaxRefs)
    /\ refs = CycleRefs
    /\ budget = 0
    /\ home = HomeDir
    /\ run = 1
    /\ first = NoFirst
    /\ environ = EmptyDict
    /\ pc = "file"
    /\ cur = 1
    /\ stack = <<>>
    /\ config = NoConfig
    /\ loaded = NoConfig
    /\ loads = <<>>
    /\ result = NoConfig
    /\ event = NoEvent

SpecCycles == InitCycles /\ [][Next]_vars /\ WF_vars(Next)

(***************************************************************************)
(* C19  Every load terminates                                              *)
(***************************************************************************)
\* C19: whatever the include graph, the nesting of process_includes stays
\* bounded and load_config comes to its end: it returns or it raises.
C19_LoadTerminates ==
    [](Len(stack) < MaxDepth) /\ <>(pc \in {"done", "error"})

\* a.yaml -> b.yaml -> c.yml -> a.yaml, loaded from a.yaml
C19_Witness ==
    /\ pc = "done" /\ srcs = <<PathA>>
    /\ {PathA, PathB, PathC} \subseteq DOMAIN fs
    /\ fs[PathA].include = <<RefB>>
    /\ fs[PathB].include = <<RefC>>
    /\ fs[PathC].include = <<RefA>>

(***************************************************************************)
(* Loads over files whose include lists share a file: a.yaml may include   *)
(* b.yaml and c.yml, each of which may include e.py                        *)
(***************************************************************************)
DiamondFileSystems ==
    LET Maps(names, n) == {File("map", inc) : inc \in SeqsUpTo(names, n)}
        shared == {File(k, <<>>) : k \in {"missing", "noconfig", "wrongtype", "map"}}
    IN  {disk \in [{PathA, PathB, PathC, PathPy} ->
                       Maps({RefB, RefC}, 2) \cup Maps({RefPy}, 1) \cup shared] :
            /\ disk[PathA] \in Maps({RefB, RefC}, 2)
            /\ disk[PathB] \in Maps({RefPy}, 1)
            /\ disk[PathC] \in Maps({RefPy}, 1)
            /\ disk[PathPy] \in shared}

InitDiamond ==
    /\ srcs \in SourceLists(1)
    /\ explicit_path = NoneV
    /\ heap = EmptyDict
    /\ fs \in DiamondFileSystems
    /\ refs = {RefB, RefC, RefPy}
    /\ budget = 0
    /\ home = HomeDir
    /\ run = 1
    /\ first = NoFirst
    /\ environ = EmptyDict
    /\ pc = "file"
    /\ cur = 1
    /\ stack = <<>>
    /\ config = NoConfig
    /\ loaded = NoConfig
    /\ loads = <<>>
    /\ result = NoConfig
    /\ event = NoEvent

SpecDiamond == InitDiamond /\ [][Next]_vars

(***************************************************************************)
(* C20  A file included by two sibling branches is loaded in both          *)
(***************************************************************************)
\* a.yaml includes b.yaml and c.yml, both of which include e.py
IsDiamond ==
    /\ srcs = <<PathA>>
    /\ {PathA, PathB, PathC, PathPy} \subseteq DOMAIN fs
    /\ fs[PathA] = File("map", <<RefB, RefC>>)
    /\ fs[PathB] = File("map", <<RefPy>>)
    /\ fs[PathC] = File("map", <<RefPy>>)
    /\ fs[PathPy] = File("map", <<>>)

\* data holds what e.py declares: its variable and, last, its pattern
HoldsDataOfShared(data) ==
    /\ IsDict(data)
    /\ {"variables", "global_exclude_patterns"} \subseteq DOMAIN data.v
    /\ NameX \in DOMAIN data.v.variables.v
    /\ data.v.variables.v[NameX] = PathPy
    /\ LET patterns == data.v.global_exclude_patterns.v
       IN  patterns # <<>> /\ patterns[Len(patterns)] = PathPy

\* C20: when a.yaml includes b.yaml and c.yml and both include e.py, no
\* inclusion is skipped as circular, the result of b.yaml and the result of
\* c.yml each hold e.py's data with e.py as their source, and the sources
\* of the load name e.py once for each branch.
C20_SharedIncludeLoadedInBothBranches ==
    IsDiamond =>
        /\ pc # "error"
        /\ ~(event.kind = "skip" /\ event.reason = "circular")
        /\ \A i \in DOMAIN stack :
               i = 2 /\ Finished(stack[i])
                   => /\ stack[i].path \in {PathB, PathC}
                      /\ stack[i].sources = <<PathPy>>
                      /\ HoldsDataOfShared(stack[i].merged_data)
        /\ pc \in {"merge", "overlay", "done"}
               => loaded.sources = <<PathPy, PathB, PathPy, PathC, PathA>>

\* the load of the diamond has returned
C20_Witness == IsDiamond /\ pc = "done"

(***************************************************************************)
(* C21  The in-progress set of a call is restored after every entry        *)
(***************************************************************************)
\* C21: a call of process_includes that is between two entries, or about to
\* return, holds exactly the in-progress set it started with; while one of
\* its entries is being loaded its set holds that entry's path besides, and
\* the recursive call, which started with a copy of that set, has not
\* changed it.
C21_InProgressRestored ==
    \A i \in DOMAIN stack :
        IF i = Len(stack)
        THEN stack[i].processed_sources = stack[i].started_with
        ELSE /\ stack[i].processed_sources
                    = stack[i].started_with \cup {stack[i + 1].path}
             /\ stack[i + 1].started_with = stack[i].processed_sources

\* the outermost call is about to return after two entries, of which one
\* was loaded and one was skipped
C21_Witness ==
    /\ pc = "includes" /\ Len(stack) = 1 /\ Finished(Top)
    /\ Len(Top.includes) = 2
    /\ Len(Top.sources) = 1
    /\ Top.processed_sources = {}

(***************************************************************************)
(* C22  The entries of one include list are merged in declared order       *)
(***************************************************************************)
\* the call f has finished an include list [x, y] of two different files
\* that were both loaded as mappings
BothLoaded(f) ==
    /\ Finished(f) /\ f.status = "loop" /\ Len(f.includes) = 2
    /\ \A k \in 1..2 :
          /\ EntryIsLoaded(f.includes[k], f.base_path, f.processed_sources)
          /\ fs[ResolveConfigReference(f.includes[k], f.base_path).val].kind = "map"
    /\ ResolveConfigReference(f.includes[1], f.base_path)
          # ResolveConfigReference(f.includes[2], f.base_path)

\* C22: when a call has finished an include list [x, y] whose two files both
\* load, every variable name and every profile name that x and y both
\* declare has in the merged data the value that the load of y delivered,
\* and the path of x stands before the path of y, which is last, in the
\* sources of the call.
C22_LaterEntryOverrides ==
    \A k \in DOMAIN stack :
        BothLoaded(stack[k]) =>
            LET f == stack[k]
                x == ResolveConfigReference(f.includes[1], f.base_path).val
                y == ResolveConfigReference(f.includes[2], f.base_path).val
                of_y == DataOfFile(y, f.processed_sources \cup {y})
            IN  /\ \A v \in DOMAIN OwnVariables(x) \cap DOMAIN OwnVariables(y) :
                      f.merged_data.v.variables.v[v] = of_y.v.variables.v[v]
                /\ \A n \in DOMAIN OwnProfiles(x) \cap DOMAIN OwnProfiles(y) :
                      f.merged_data.v.profiles.v[n] = of_y.v.profiles.v[n]
                /\ f.sources[Len(f.sources)] = y
                /\ \E i \in 1..(Len(f.sources) - 1) : f.sources[i] = x

\* c.yml includes a.yaml and then b.yaml, which both declare TB_V and the
\* profile py
C22_Witness ==
    /\ pc = "includes" /\ Len(stack) = 1 /\ BothLoaded(Top)
    /\ Top.path = PathC /\ Top.includes = <<RefA, RefB>>
    /\ Top.merged_data.v.variables.v[NameTB] = PathB
    /\ Top.sources = <<PathA, PathB>>

(***************************************************************************)
(* Merging on a heap of Python objects. A cell of kind "obj" is a mapping  *)
(* or a model: it holds, for each key or field, the address of the object  *)
(* stored there. A cell of kind "val" holds the content of a dict or list  *)
(* that the merge functions only read, copy or replace as a whole.         *)
(***************************************************************************)
\* the place, after the address of an object, of what it holds under key
Slot(key) ==
    CASE key = "sources" -> 1
      [] key = "profiles" -> 2
      [] key = "global_exclude_patterns" -> 3
      [] key = "variables" -> 4
      [] OTHER -> 5

\* the cells of the object with these fields (key -> content), put at address a
Stored(a, fields) ==
    [c \in {a} \cup {a + Slot(k) : k \in DOMAIN fields} |->
        IF c = a
        THEN [t |-> "obj", refs |-> [k \in DOMAIN fields |-> a + Slot(k)]]
        ELSE [t |-> "val", v |-> fields[CHOOSE k \in DOMAIN fields : a + Slot(k) = c]]]

\* the fields (key -> content) of the object at address a
Deref(h, a) == [k \in DOMAIN h[a].refs |-> h[h[a].refs[k]].v]

\* x.copy() as it would be if it returned x itself
NoCopy(h, a, k) == a

\* x.copy() for the object x at address a: the address of the copy, which
\* is the k-th object after the first that the call creates
NewCopy(h, a, k) == MaxOf(DOMAIN h) + 1 + k

\* merge_configs(base, override) on the heap h: the heap after the call and
\* the address of the ToolbeltConfig it returns
MergeConfigsOnHeap(h, base, override) ==
    LET b == h[base].refs
        o == h[override].refs
        new == MaxOf(DOMAIN h) + 1
        merged_languages == NewCopy(h, b.profiles, Slot("profiles"))
        made == Stored(new, MergeConfigs(Deref(h, base), Deref(h, override)))
        cells == [c \in (DOMAIN made \ {new + Slot("profiles")}) \cup {merged_languages} |->
                    IF c = merged_languages THEN made[new + Slot("profiles")]
                    ELSE IF c = new
                    THEN [made[new] EXCEPT !.refs.profiles = merged_languages]
                    ELSE made[c]]
    IN  [heap |-> DictUpdate(h, cells), ref |-> new]

\* _merge_config_data(base_data, override_data) on the heap h, for mappings
\* whose values have the types the function expects
MergeConfigDataOnHeap(h, base_data, override_data) ==
    LET b == h[base_data].refs
        o == h[override_data].refs
        new == MaxOf(DOMAIN h) + 1
        merged == NewCopy(h, base_data, 0)
        both == DOMAIN b \cap DOMAIN o
        At(k) == IF k \in both \cap {"profiles", "variables"}
                 THEN NewCopy(h, b[k], Slot(k))
                 ELSE IF k \in both /\ k = "global_exclude_patterns"
                 THEN new + Slot(k)
                 ELSE IF k \in DOMAIN o THEN o[k]
                 ELSE b[k]
        made == both \cap {"profiles", "variables", "global_exclude_patterns"}
        cells == [c \in {merged} \cup {At(k) : k \in made} |->
                    IF c = merged
                    THEN [t |-> "obj", refs |-> [k \in DOMAIN b \cup DOMAIN o |-> At(k)]]
                    ELSE LET k == CHOOSE j \in made : At(j) = c
                         IN  [t |-> "val",
                              v |-> MergedKey(Deref(h, base_data), k, h[o[k]].v).val]]
    IN  [heap |-> DictUpdate(h, cells), ref |-> merged]

\* two ToolbeltConfig objects, or two raw mappings, each with its own
\* objects; loads holds the addresses of the configurations there are
InitHeap ==
    /\ pc \in {"typed", "raw"}
    /\ IF pc = "typed"
       THEN \E base \in ConfigsOf(PathA), override \in ConfigsOf(PathB) :
               heap = DictUpdate(Stored(1, base), Stored(11, override))
       ELSE \E base_data \in RawDocuments(<<"b">>), override_data \in RawDocuments(<<"o">>) :
               heap = DictUpdate(Stored(1, base_data.v), Stored(11, override_data.v))
    /\ loads = <<1, 11>>
    /\ explicit_path = NoneV
    /\ srcs = <<>>
    /\ fs = EmptyDict
    /\ refs = {}
    /\ budget = 0
    /\ home = HomeDir
    /\ run = 1
    /\ first = NoFirst
    /\ environ = EmptyDict
    /\ cur = 1
    /\ stack = <<>>
    /\ config = NoConfig
    /\ loaded = NoConfig
    /\ result = NoConfig
    /\ event = NoEvent

\* one merge: the first merges the two configurations there are, the
\* second merges the result of the first with any of the three, on either side
HeapMerge ==
    /\ pc \in {"typed", "raw"} /\ Len(loads) < 4
    /\ \E i, j \in DOMAIN loads :
          /\ Len(loads) = 2 => i = 1 /\ j = 2
          /\ Len(loads) = 3 => 3 \in {i, j}
          /\ \E r \in {IF pc = "typed"
                        THEN MergeConfigsOnHeap(heap, loads[i], loads[j])
                        ELSE MergeConfigDataOnHeap(heap, loads[i], loads[j])} :
                /\ heap' = r.heap
                /\ loads' = Append(loads, r.ref)
                /\ event' = [kind |-> "heap_merge", base |-> loads[i],
                              override |-> loads[j], ref |-> r.ref]
    /\ UNCHANGED <<explicit_path, srcs, fs, refs, budget, home, environ, pc, cur, stack,
                   config, loaded, result, run, first>>

SpecHeap == InitHeap /\ [][HeapMerge]_vars

(***************************************************************************)
(* C23  A merge leaves its arguments as they are                           *)
(***************************************************************************)
\* no step changes an object that exists
ObjectsKept ==
    \A a \in DOMAIN heap : a \in DOMAIN heap' /\ heap'[a] = heap[a]

\* what the last merge returned is the merge of its arguments
ReturnedTheMerge ==
    event.kind = "heap_merge" =>
        IF pc = "typed"
        THEN Deref(heap, event.ref)
                = MergeConfigs(Deref(heap, event.base), Deref(heap, event.override))
        ELSE DictV(Deref(heap, event.ref))
                = MergeConfigData(DictV(Deref(heap, event.base)),
                                  DictV(Deref(heap, event.override))).val

\* C23: merge_configs and _merge_config_data return the merge of their
\* arguments in a new object, and no object that existed before the call
\* (the two arguments, what they hold, and every configuration an earlier
\* merge returned) is changed by it.
C23_MergeLeavesArgumentsUnchanged ==
    [][ObjectsKept]_vars /\ []ReturnedTheMerge

\* a second merge_configs whose base is the result of the first, over two
\* configurations that both hold the profile py
C23_Witness ==
    /\ pc = "typed" /\ Len(loads) = 4
    /\ event.base = loads[3] /\ event.override = loads[1]
    /\ "py" \in DOMAIN Deref(heap, 1).profiles \cap DOMAIN Deref(heap, 11).profiles
    /\ Deref(heap, 1).profiles # Deref(heap, loads[4]).profiles

(***************************************************************************)
(* C24  No file is held open across the processing of includes             *)
(***************************************************************************)
\* C24: no file is open when a call of process_includes is entered, and the
\* step that reads a configuration file has at most one file open at any
\* point and none when it is over: the file is opened, read and closed
\* before its includes are processed and before another file is opened.
C24_OneFileOpenAtMost ==
    /\ \A i \in DOMAIN stack : stack[i].open_files = {}
    /\ "io" \in DOMAIN event =>
          /\ \A n \in 0..Len(event.io) :
                Cardinality(StillOpen(SubSeq(event.io, 1, n))) <= 1
          /\ StillOpen(event.io) = {}

\* a recursive call has been entered for a file that was opened and read
C24_Witness ==
    /\ pc = "includes" /\ Len(stack) = 3
    /\ event.kind = "enter" /\ Len(event.io) = 3
    /\ event.io[1].op = "open" /\ event.io[1].path = Top.path

(***************************************************************************)
(* Loads whose include lists spell a file in another way: s/../a.yaml is   *)
(* a.yaml, s being a directory next to it                                  *)
(***************************************************************************)
InitSpelling ==
    /\ srcs \in SourceLists(1)
    /\ explicit_path = NoneV
    /\ heap = EmptyDict
    /\ fs = EmptyDict
    /\ refs = {RefDotDot, RefB}
    /\ budget = MaxRefs - 1
    /\ home = HomeDir
    /\ run = 1
    /\ first = NoFirst
    /\ environ = EmptyDict
    /\ pc = "file"
    /\ cur = 1
    /\ stack = <<>>
    /\ config = NoConfig
    /\ loaded = NoConfig
    /\ loads = <<>>
    /\ result = NoConfig
    /\ event = NoEvent

SpecSpelling == InitSpelling /\ [][Next]_vars

(***************************************************************************)
(* C25  Cycle detection and the spelling of a path                         *)
(***************************************************************************)
\* C25: a file is not loaded again while a load of it is in progress under
\* another spelling of its path: two active loads whose path strings differ
\* are loads of different files.
C25_CycleDetectedUnderAnySpelling ==
    \A i, j \in DOMAIN stack :
        stack[i].path # stack[j].path
            => RealPath(stack[i].path) # RealPath(stack[j].path)

(***************************************************************************)
(* C26  A file is listed in sources exactly when its data was merged       *)
(***************************************************************************)
\* C26: when a recursive call of process_includes returns to its caller,
\* the caller's sources grow exactly when the data of the included file is
\* merged into the caller's data: a file whose merge raises is not listed,
\* and a file that is merged is listed.
C26_ListedIffMerged ==
    [][event'.kind \in {"merged", "merge_failed"} =>
          LET k == Len(stack')
          IN  (stack'[k].sources # stack[k].sources) <=> (event'.kind = "merged")]_vars

(***************************************************************************)
(* C27  A profile field the later source does not declare                  *)
(***************************************************************************)
\* the raw data d declares profile n
HasProfile(d, n) ==
    IsDict(d) /\ "profiles" \in DOMAIN d.v /\ n \in DOMAIN d.v.profiles.v

\* C27: when load_config has merged two sources, a profile that the data
\* of both sources declares, with ignore_files declared by the first and
\* not by the second, has in the result the ignore_files list the first
\* source declared.
C27_UndeclaredIgnoreFilesKept ==
    (pc = "done" /\ Len(srcs) = 2 /\ Len(loads) = 2) =>
        LET early == DataOfFile(srcs[1], {})
            late == DataOfFile(srcs[2], {})
        IN  \A n \in DOMAIN result.profiles :
                (/\ HasProfile(early, n) /\ HasProfile(late, n)
                 /\ "ignore_files" \in DOMAIN early.v.profiles.v[n]
                 /\ "ignore_files" \notin DOMAIN late.v.profiles.v[n])
                => result.profiles[n].ignore_files = early.v.profiles.v[n].ignore_files

(***************************************************************************)
(* C28  The order of the patterns of a file with includes                  *)
(***************************************************************************)
\* C28: a configuration loaded from a file whose sources are all files
\* holding a mapping has as global_exclude_patterns the patterns the files
\* declare in the order of sources: those of each included file before
\* those of the including file.
C28_PatternsInSourceOrder ==
    (/\ event.kind = "loaded"
     /\ \A k \in DOMAIN loaded.sources :
           /\ loaded.sources[k] \in DOMAIN fs
           /\ fs[loaded.sources[k]].kind = "map")
    => loaded.global_exclude_patterns =
          Concatenation([k \in DOMAIN loaded.sources |->
                            OwnPatterns(loaded.sources[k])])

(***************************************************************************)
(* C29  merge_configs on three configurations, grouped both ways           *)
(***************************************************************************)
\* the sets of non-empty fields of the profile py of the three
\* configurations: every field is empty or not independently in each
FieldChoices ==
    {{}, {"extensions", "check_tools"},
     {"exclude_patterns", "ignore_files", "format_tools"}, MergedFields}

\* the name field of the profiles of the configuration marked p
NameOfMark(p) ==
    IF p = PathA THEN "first" ELSE IF p = PathB THEN "second" ELSE "third"

\* the configurations marked p: py absent or with one of the field choices,
\* js absent or present, one or two variables
MarkedConfigs(p) ==
    LET Profile(n, ne) == [ProfileOf(n, p, ne) EXCEPT !.name = NameOfMark(p)]
        pys == {Profile("py", ne) : ne \in FieldChoices}
        js == Profile("js", MergedFields)
        maps == {EmptyDict}
                \cup {[n \in {"js"} |-> js]}
                \cup {[n \in {"py"} |-> py] : py \in pys}
                \cup {[n \in {"py", "js"} |-> IF n = "py" THEN py ELSE js] : py \in pys}
    IN  {[sources |-> <<p>>,
          profiles |-> pm,
          global_exclude_patterns |-> <<p, DupPattern>>,
          variables |-> [v \in names |-> p]] :
            pm \in maps, names \in {{NameTB}, {NameTB, NameX}}}

\* loads holds the three configurations a, b, c
InitTriple ==
    /\ \E a \in MarkedConfigs(PathA), b \in MarkedConfigs(PathB),
          c \in MarkedConfigs(PathC) : loads = <<a, b, c>>
    /\ pc = "triple"
    /\ config = NoConfig
    /\ loaded = NoConfig
    /\ result = NoConfig
    /\ srcs = <<>>
    /\ explicit_path = NoneV
    /\ heap = EmptyDict
    /\ fs = EmptyDict
    /\ refs = {}
    /\ budget = 0
    /\ home = HomeDir
    /\ environ = EmptyDict
    /\ cur = 1
    /\ stack = <<>>
    /\ event = NoEvent
    /\ run = 1
    /\ first = NoFirst

\* config = merge_configs(a, b)
MergeFirstTwo ==
    /\ pc = "triple"
    /\ config' = MergeConfigs(loads[1], loads[2])
    /\ pc' = "first_two"
    /\ event' = [kind |-> "merge_configs"]
    /\ UNCHANGED <<heap, explicit_path, srcs, fs, refs, budget, home, environ, cur, stack,
                   loaded, loads, run, first, result>>

\* loaded = merge_configs(b, c)
MergeLastTwo ==
    /\ pc = "first_two"
    /\ loaded' = MergeConfigs(loads[2], loads[3])
    /\ pc' = "last_two"
    /\ event' = [kind |-> "merge_configs"]
    /\ UNCHANGED <<heap, explicit_path, srcs, fs, refs, budget, home, environ, cur, stack,
                   config, loads, run, first, result>>

\* result = merge_configs(merge_configs(a, b), c), the grouping of the loop
\* of load_config; event holds merge_configs(a, merge_configs(b, c))
MergeGrouped ==
    /\ pc = "last_two"
    /\ result' = MergeConfigs(config, loads[3])
    /\ event' = [kind |-> "grouped", right |-> MergeConfigs(loads[1], loaded)]
    /\ pc' = "grouped"
    /\ UNCHANGED <<heap, explicit_path, srcs, fs, refs, budget, home, environ, cur, stack,
                   config, loaded, loads, run, first>>

NextTriple == MergeFirstTwo \/ MergeLastTwo \/ MergeGrouped

SpecTriple == InitTriple /\ [][NextTriple]_vars

\* C29: merge_configs(merge_configs(a, b), c) and
\* merge_configs(a, merge_configs(b, c)) have equal sources, profiles,
\* global_exclude_patterns and variables.
C29_MergeConfigsAssociative ==
    pc = "grouped" =>
        /\ result.sources = event.right.sources
        /\ result.profiles = event.right.profiles
        /\ result.global_exclude_patterns = event.right.global_exclude_patterns
        /\ result.variables = event.right.variables

\* the three configurations hold py: a with every field set, b with none,
\* c with extensions and check_tools only
C29_Witness ==
    /\ pc = "grouped"
    /\ \A k \in 1..3 : "py" \in DOMAIN loads[k].profiles
    /\ loads[1].profiles["py"].ignore_files # <<>>
    /\ loads[2].profiles["py"].extensions = <<>>
    /\ loads[2].profiles["py"].ignore_files = <<>>
    /\ loads[3].profiles["py"].extensions # <<>>
    /\ loads[3].profiles["py"].ignore_files = <<>>
    /\ result.profiles["py"].name = "first"
    /\ result.profiles["py"].extensions = <<PathC>>
    /\ result.profiles["py"].ignore_files = <<PathA>>

(***************************************************************************)
(* C30  The include processor of includes.py, as one function of its       *)
(* arguments and the files on disk, beside the include processor of        *)
(* loader.py, which the actions ProcessEntry and ReturnToInclude run step   *)
(* by step.                                                                *)
(***************************************************************************)
\* includes.resolve_config_reference(config_ref, base_path): Ok(path) or
\* NoPath; the '~/' branch expands through HOME
IncludesResolveConfigReference(config_ref, base_path) ==
    IF StartsWith(config_ref, <<"@">>)
    THEN LET r == ResolvePackageResource(config_ref)
         IN  IF r.ok THEN r ELSE NoPath
    ELSE IF StartsWith(config_ref, <<"~", "/">>) THEN Ok(ExpandUser(config_ref))
    ELSE IF StartsWith(config_ref, <<"/">>) THEN Ok(PathStr(config_ref))
    ELSE Ok(PathJoin(base_path, config_ref))

\* includes._merge_config_data as it would be if the data of the including
\* file were merged over the included data
IncludesMergeConfigDataSwapped(base_data, override_data) ==
    MergeConfigData(override_data, base_data)

\* includes._merge_config_data(base_data, override_data): Ok(merged
\* document) or the exception the loop raises
IncludesMergeConfigData(base_data, override_data) ==
    IF ~(IsDict(base_data) \/ IsList(base_data)) THEN Raise("AttributeError")
    ELSE IF ~IsDict(override_data) THEN Raise("AttributeError")
    ELSE IF IsList(base_data)
         THEN (IF DOMAIN override_data.v = {} THEN Ok(base_data)
               ELSE Raise("TypeError"))
    ELSE LET merged == base_data.v
             over == override_data.v
             Key(key, value) ==
                 IF key = "profiles" /\ key \in DOMAIN merged
                 THEN MergedUpdateMapping(merged[key], value)
                 ELSE IF key = "global_exclude_patterns" /\ key \in DOMAIN merged
                 THEN MergedConcat(merged[key], value)
                 ELSE IF key = "variables" /\ key \in DOMAIN merged
                 THEN MergedUpdateMapping(merged[key], value)
                 ELSE Ok(value)
             failed == {k \in DOMAIN over : ~Key(k, over[k]).ok}
         IN  IF failed # {}
             THEN Raise(Key(CHOOSE k \in failed : TRUE,
                            over[CHOOSE k \in failed : TRUE]).exc)
             ELSE Ok(DictV([k \in DOMAIN merged \cup DOMAIN over |->
                              IF k \in DOMAIN over THEN Key(k, over[k]).val
                              ELSE merged[k]]))

\* the file the include processor finds at path p
IncludesFileAt(p) ==
    IF RealPath(p) \in DOMAIN fs THEN fs[RealPath(p)] ELSE File("missing", <<>>)

RECURSIVE IncludesProcessIncludes(_, _, _)
RECURSIVE IncludesLoop(_, _, _, _, _, _)
\* includes.process_includes(data, base_path, processed_sources):
\* Ok([merged_data, sources]) or the exception it raises
IncludesProcessIncludes(data, base_path, processed_sources) ==
    IF data = NoneV THEN Raise("TypeError")
    ELSE IF ~(IsDict(data) /\ "include" \in DOMAIN data.v)
    THEN Ok([merged_data |-> data, sources |-> <<>>])
    ELSE IncludesLoop(IF IsList(data.v.include) THEN data.v.include.v
                      ELSE <<data.v.include.v>>,
                      1, DictV(DictWithout(data.v, "include")), <<>>,
                      base_path, processed_sources)

\* the loop of includes.process_includes from entry idx on
IncludesLoop(includes, idx, merged_data, sources, base_path, processed_sources) ==
    IF idx > Len(includes)
    THEN Ok([merged_data |-> merged_data, sources |-> sources])
    ELSE LET include_ref == includes[idx]
             resolved == IncludesResolveConfigReference(include_ref, base_path)
             Continue(m, s) ==
                 IncludesLoop(includes, idx + 1, m, s, base_path, processed_sources)
         IN  IF ~resolved.ok THEN Continue(merged_data, sources)
             ELSE IF resolved.val \in processed_sources
             THEN Continue(merged_data, sources)
             ELSE LET file == IncludesFileAt(resolved.val) IN
             IF ~StartsWith(include_ref, <<"@">>) /\ file.kind = "missing"
             THEN Continue(merged_data, sources)
             ELSE IF PathSuffix(resolved.val) \notin YamlSuffixes \cup {PySuffix}
             THEN Continue(merged_data, sources)
             ELSE IF ReadRaises(file) THEN Continue(merged_data, sources)
             ELSE LET r == IncludesProcessIncludes(
                               Document(resolved.val, file), PathParent(resolved.val),
                               processed_sources \cup {resolved.val})
                      m == IncludesMergeConfigData(merged_data, r.val.merged_data)
                      s == sources \o r.val.sources \o <<resolved.val>>
                  IN  IF ~r.ok THEN Continue(merged_data, sources)
                      ELSE IF ~m.ok THEN Continue(merged_data, s)
                      ELSE Continue(m.val, s)

\* a call of loader._process_includes that is over has returned, or raised,
\* what includes.process_includes returns, or raises, on the same data, base
\* path, set of paths in progress and files
SameAsIncludes ==
    (pc = "includes" /\ stack # <<>> /\ Finished(Top)) =>
        LET r == IncludesProcessIncludes(
                     Document(Top.path, IncludesFileAt(Top.path)),
                     Top.base_path, Top.started_with)
        IN  IF Top.status = "raise" THEN ~r.ok
            ELSE /\ r.ok
                 /\ r.val.merged_data = Top.merged_data
                 /\ r.val.sources = Top.sources

\* what the include processor delivered to the second call of load_config
\* is what it delivered to the first, in the fields the environment overlay
\* leaves alone
SecondRunSame ==
    /\ result.sources = first.result.sources
    /\ result.profiles = first.result.profiles
    /\ result.global_exclude_patterns = first.result.global_exclude_patterns

\* C30, as stated: the two include processors return the same merged data
\* and the same sources for the same data, base path, paths in progress and
\* files, and a second call on the same files in another environment (HOME
\* among its variables) is delivered what the first was.
C30_SameResultNoEnvironment ==
    /\ SameAsIncludes
    /\ (pc = "done" /\ run = 2) => SecondRunSame

\* C30, for environments that agree on HOME: the two include processors
\* return the same merged data and the same sources, and a second call on
\* the same files with the same HOME is delivered what the first was.
C30_SameResultSameHome ==
    /\ SameAsIncludes
    /\ (pc = "done" /\ run = 2 /\ home = first.home) => SecondRunSame

\* the second call, with the same HOME and another environment, has ended a
\* call of the include processor on b.yaml that merged its include ~/a.yaml
C30_Witness ==
    /\ run = 2 /\ home = first.home /\ environ # first.environ
    /\ pc = "includes" /\ Len(stack) = 1 /\ Finished(Top)
    /\ Top.path = PathB /\ Top.includes = <<RefHomeA>>
    /\ Len(Top.sources) = 1
    /\ Top.merged_data.v.variables.v[NameTB] = Top.sources[1]
====
